---- MODULE Spec2Model ----
(***************************************************************************)
(* Preview request orchestration and streaming summary pipeline of Glance. *)
(*                                                                         *)
(* Three contexts are modelled:                                            *)
(*   - the content script (src/content/index.ts, documentLoader.ts),       *)
(*   - the preview panel component (PreviewPanel, unnamed/part_002),       *)
(*   - the background service worker (unnamed/part_003).                   *)
(* Every action is one run-to-completion step of the JavaScript event loop *)
(* of one context: a handler from its entry (or from the await it resumes  *)
(* after) up to its next await, the microtasks it queues included.         *)
(* Timers are abstracted to "armed timers may fire at any moment".         *)
(***************************************************************************)
EXTENDS Integers, Sequences, FiniteSets, TLC

\* ---------------------------------------------------------------- bounds
MaxRequests == 2
MaxCloses == 2

\* ------------------------------------------------------ program constants
RuleIdStart == 1000

Req == 1..MaxRequests
Urls == {"u1", "u2"}
NoUrl == "none"
\* A non-empty API base URL.
ApiBase == "api"
\* A message's url that is not a string (undefined, a number, an object).
NotAString == "notAString"
\* Messages with such a url that reach the worker.
MaxBadMessages == 2
\* SUMMARY_PROMPT_LIMIT (1000 in the code), scaled to the prompts checked.
SummaryPromptLimit == 3
\* Length of the longest prompt handed to saveSettingsState.
MaxPromptLen == 6

VARIABLES
  panel,             \* state of the PreviewPanel component
  currentController, \* index.ts: id of the load AbortController, 0 = null
  csActiveRequestId, \* index.ts: activeRequestId, 0 = null
  loadAborted,       \* load AbortControllers whose signal is aborted
  load,              \* per request: state of the loadDocumentHtml promise
  reqUrl,            \* per request: the url it was triggered with
  render,            \* per request: position inside renderHtml
  gen,               \* per request: position inside generateSummaryWithAI
  onLoadListeners,   \* onLoad listeners registered on the frame
  frameLoadPending,  \* the frame has a navigation whose load event is due
  toWorker,          \* messages content -> worker, in sending order
  toTab,             \* summary messages worker -> tab, in sending order
  fetchResp,         \* per request: FETCH_DOCUMENT response in flight
  bypassResp,        \* per request: ADD_CSP_BYPASS response in flight
  activeRuleIds,     \* worker: tracked rule ids
  ruleIdCounter,     \* worker: next rule id
  installed,         \* browser: session rules currently installed
  apiQueue,          \* browser: pending updateSessionRules calls
  apiFailed,         \* history: some updateSessionRules call has failed
  clearResp,         \* worker: the last answer of the CLEAR_CSP_BYPASS handler
  wFetch,            \* worker, per request: FETCH_DOCUMENT handler position
  wFetchTimer,       \* worker, per request: the 10 s timer
  wSum,              \* worker, per request: GENERATE_SUMMARY handler position
  wSumTimer,         \* worker, per request: the 60 s timer
  wBuffer,           \* worker, per request: SSE line buffer
  wBody,             \* upstream, per request: network reads not yet delivered
  wBodyAll,          \* upstream, per request: the whole response body
  wStatus,           \* upstream, per request: response.status (0: no response)
  wSent,             \* history, per request: messages sent by sendToTab
  closesInRow,       \* history: close() calls since the last trigger
  store,             \* browser storage areas and the options page's settings
  extract,           \* per call of extractMarkdownFromHtml: its promise and signal
  loader,            \* the last call of loadDocumentHtml: its inputs and result
  prompt,            \* the summary prompt: as given, as stored, as reported
  wAnswers           \* history: the worker's sendResponse calls per message

contentVars == <<panel, currentController, csActiveRequestId, loadAborted, load,
                 reqUrl, render, gen, onLoadListeners, frameLoadPending>>
chanVars == <<toWorker, toTab, fetchResp, bypassResp>>
ruleVars == <<activeRuleIds, ruleIdCounter, installed, apiQueue, apiFailed,
              clearResp>>
wFetchVars == <<wFetch, wFetchTimer>>
wSumVars == <<wSum, wSumTimer, wBuffer, wBody, wBodyAll, wStatus, wSent>>
unitVars == <<extract, loader, prompt>>
previewVars == <<contentVars, chanVars, ruleVars, wFetchVars, wSumVars, closesInRow>>
vars == <<previewVars, store, unitVars, wAnswers>>

\* ------------------------------------------------------------ SSE bodies
\* An upstream body is a sequence of tokens; a network read is a slice of it.
\*   D     the record prefix `data: `
\*   json  a JSON payload whose choices[0].delta.content is the field c
\*   bad   a payload that is not JSON (`not-json`)
\*   done  the payload `[DONE]`
\*   nl    a newline,  sp  a blank
Tok(t) == [t |-> t, c |-> <<>>]
Json(c) == [t |-> "json", c |-> c]
D == Tok("D")
NL == Tok("nl")
SP == Tok("sp")
DONE == Tok("done")
BAD == Tok("bad")
He == <<"H", "e">>
Llo == <<"l", "l", "o">>

\* Bodies offered by the upstream endpoint, each already cut into reads.
Bodies ==
  { << <<D, Json(He), NL, D>>, <<Json(Llo), NL, D, DONE, NL>> >>,
    << <<D, BAD, NL, D, Json(He), NL>> >>,
    << <<D, DONE, NL, D, Json(He), NL>> >> }

\* -------------------------------------------------- PreviewPanel component
\* Status texts are abbreviated to tags: the component shows Chinese
\* sentences, the tags keep one name per distinct sentence.
Fallback ==
  [idle |-> "waitingPreview", loading |-> "parsing", ready |-> "preliminary",
   error |-> "cannotParse", blocked |-> "noModelYet"]

EmptyContent == [kind |-> "empty", md |-> <<>>]
SetupContent == [kind |-> "setup", md |-> <<>>]
\* marked.parse: the accumulated markdown rendered to HTML (library code, kept
\* as a tagged value of its input; the empty text renders to the empty string).
Marked(md) == IF md = <<>> THEN EmptyContent ELSE [kind |-> "html", md |-> md]

ConfigStates == {"null", "notready", "ready"}

CanSummarize(p) == p.modelConfig = "ready"

\* modelConfig?.note ?? fallback
NoteOr(p, fallback) == IF p.modelConfig = "null" THEN fallback ELSE "note"

\* A variant of isCurrentRequest that compares with the id counter.
IsLatestRequest(p, requestId) == p.requestCounter = requestId

IsCurrentRequest(p, requestId) == p.activeRequestId = requestId

SetSummaryState(p, state, message) ==
  [p EXCEPT !.summaryState = state,
            !.summaryStatus = IF message = "" THEN Fallback[state] ELSE message]

ClearSummaryContent(p) == [p EXCEPT !.summaryContent = EmptyContent]

RenderModelSetupPrompt(p) == [p EXCEPT !.summaryContent = SetupContent]

RenderSummaryContent(p, md) == [p EXCEPT !.summaryContent = Marked(md)]

RemoveSummaryMessageListener(p) ==
  IF p.summaryMessageListener # 0
    THEN [p EXCEPT !.registered = @ \ {p.summaryMessageListener},
                   !.summaryMessageListener = 0]
    ELSE p

\* controller.abort() of a summary controller: the abort event runs the
\* { once: true } handler that generateSummaryWithAI attached after sending.
AbortSummaryController(p, c) ==
  IF c \in p.sumAborted
    THEN p
    ELSE LET p1 == [p EXCEPT !.sumAborted = @ \cup {c}]
         IN  IF c \in p1.abortHooks
               THEN RemoveSummaryMessageListener(
                      [p1 EXCEPT !.sumTimers = @ \ {c}, !.abortHooks = @ \ {c}])
               ELSE p1

CancelSummaryParsing(p) ==
  LET p1 == IF p.summaryAbortController # 0
              THEN [AbortSummaryController(p, p.summaryAbortController)
                      EXCEPT !.summaryAbortController = 0]
              ELSE p
  IN  RemoveSummaryMessageListener(p1)

UpdateModelConfig(p, next) ==
  LET p1 == [p EXCEPT !.modelConfig = next,
                      !.readySeen = @ \/ next = "ready"]
  IN  IF next # "ready"
        THEN SetSummaryState(RenderModelSetupPrompt(p1), "blocked", "note")
        ELSE IF p1.summaryState = "blocked"
               THEN SetSummaryState(ClearSummaryContent(p1), "idle", "waitingPreview")
               ELSE p1

\* A variant of show that allocates the new id and resets the panel state
\* but leaves the summary of the previous request alone.
ShowKeepsSummary(p, url) ==
  [p EXCEPT !.requestCounter = @ + 1,
            !.activeRequestId = p.requestCounter + 1,
            !.lastUrl = url,
            !.panelState = "loading", !.currentUrl = url, !.visible = TRUE,
            !.readySeen = CanSummarize(p),
            !.readyAtShow = CanSummarize(p)]

Show(p, url) ==
  LET p1 == [p EXCEPT !.requestCounter = @ + 1,
                      !.activeRequestId = p.requestCounter + 1,
                      !.lastUrl = url]
      p2 == ClearSummaryContent([CancelSummaryParsing(p1) EXCEPT !.pendingSummary = 0])
      p3 == IF CanSummarize(p2)
              THEN SetSummaryState(p2, "loading", "loadingPage")
              ELSE RenderModelSetupPrompt(
                     SetSummaryState(p2, "blocked", NoteOr(p2, "noModel")))
  IN  [p3 EXCEPT !.panelState = "loading", !.currentUrl = url, !.visible = TRUE,
                 !.readySeen = CanSummarize(p),
                 !.readyAtShow = CanSummarize(p)]

ShowError(p, requestId, message) ==
  IF ~IsCurrentRequest(p, requestId)
    THEN p
    ELSE LET p1 == CancelSummaryParsing(
                     [p EXCEPT !.panelState = "error", !.currentUrl = message,
                               !.pendingSummary = 0])
         IN  IF ~CanSummarize(p1)
               THEN SetSummaryState(RenderModelSetupPrompt(p1), "blocked",
                                    NoteOr(p1, message))
               ELSE SetSummaryState(ClearSummaryContent(p1), "error", message)

\* close() up to its await of the CLEAR_CSP_BYPASS message.
Close(p) ==
  LET p1 == ClearSummaryContent(CancelSummaryParsing(
              [p EXCEPT !.visible = FALSE, !.panelState = "idle", !.frameSrc = "",
                        !.pendingSummary = 0]))
      p2 == IF CanSummarize(p1)
              THEN SetSummaryState(p1, "idle", "waitingPreview")
              ELSE SetSummaryState(RenderModelSetupPrompt(p1), "blocked",
                                   NoteOr(p1, "noModel"))
  IN  [p2 EXCEPT !.activeRequestId = 0]

\* renderHtml up to its await of the ADD_CSP_BYPASS message; the caller has
\* checked isCurrentRequest.
RenderHtmlStart(p, requestId) ==
  IF CanSummarize(p)
    THEN SetSummaryState([p EXCEPT !.pendingSummary = requestId],
                         "loading", "waitingFrame")
    ELSE p

\* generateSummaryWithAI up to its await of getModelApiKey(): TRUE iff the
\* lookup is started.
GenerateStarts(p, requestId) ==
  /\ p.modelConfig # "null"
  /\ IsCurrentRequest(p, requestId)
  /\ requestId \notin p.sumAborted

\* beginSummaryParsing passes its guards and starts the extraction.
BeginStarts(p, requestId) ==
  /\ p.pendingSummary = requestId
  /\ CanSummarize(p)

ExtractOutcomes == {"text", "empty", "failed"}

\* A variant of beginSummaryParsing that takes markdown that trims to nothing
\* for a result.
BeginSummaryParsingEmptyOk(p, requestId, outcome) ==
  IF ~BeginStarts(p, requestId)
    THEN p
    ELSE LET p1 == SetSummaryState(
                     [CancelSummaryParsing(p) EXCEPT
                        !.summaryAbortController = requestId],
                     "loading", "parsing")
         IN  IF outcome \in {"text", "empty"} THEN p1
             ELSE [SetSummaryState(ClearSummaryContent(p1), "error", "parseFailed")
                     EXCEPT !.pendingSummary = 0, !.summaryAbortController = 0]

\* beginSummaryParsing together with the settling of extractMarkdownFromHtml,
\* which parses in a microtask of the same task (outcome: non-empty markdown,
\* markdown that trims to nothing, or a thrown error).
BeginSummaryParsing(p, requestId, outcome) ==
  IF ~BeginStarts(p, requestId)
    THEN p
    ELSE LET p1 == SetSummaryState(
                     [CancelSummaryParsing(p) EXCEPT
                        !.summaryAbortController = requestId],
                     "loading", "parsing")
         IN  CASE outcome = "text" -> p1
               [] outcome = "empty" ->
                    [SetSummaryState(ClearSummaryContent(p1), "error", "noText")
                       EXCEPT !.pendingSummary = 0]
               [] OTHER ->
                    [SetSummaryState(ClearSummaryContent(p1), "error", "parseFailed")
                       EXCEPT !.pendingSummary = 0, !.summaryAbortController = 0]

\* A variant of the onLoad listener without the isCurrentRequest test.
OnLoadAnyRequest(p, requestId, outcome) ==
  LET p1 == [p EXCEPT !.panelState = "ready"]
  IN  IF CanSummarize(p1) THEN BeginSummaryParsing(p1, requestId, outcome)
                          ELSE p1

\* The frame's load event reaches the onLoad listener of requestId.
OnLoad(p, requestId, outcome) ==
  IF IsCurrentRequest(p, requestId)
    THEN LET p1 == [p EXCEPT !.panelState = "ready"]
         IN  IF CanSummarize(p1) THEN BeginSummaryParsing(p1, requestId, outcome)
                                 ELSE p1
    ELSE p

\* generateSummaryWithAI after getModelApiKey() has answered with no key.
GenerateNoKey(p) ==
  [SetSummaryState(p, "error", "noApiKey") EXCEPT !.pendingSummary = 0]

\* generateSummaryWithAI after getModelApiKey() has answered with a key, up to
\* the end of the function: listener, GENERATE_SUMMARY, timer, abort handler.
GenerateSend(p, requestId) ==
  LET p1 == RemoveSummaryMessageListener(p)
      p2 == [p1 EXCEPT !.accumulated[requestId] = <<>>,
                       !.summaryMessageListener = requestId,
                       !.registered = @ \cup {requestId}]
      p3 == ClearSummaryContent(SetSummaryState(p2, "loading", "callingAI"))
  IN  [p3 EXCEPT !.sumTimers = @ \cup {requestId},
                 !.abortHooks = IF requestId \in p3.sumAborted
                                  THEN @ ELSE @ \cup {requestId}]

\* messageListener of the session of requestId, for one message.
MessageListener(p, requestId, msg) ==
  IF requestId \in p.sumAborted \/ ~IsCurrentRequest(p, requestId)
    THEN p
    ELSE CASE msg.type = "SUMMARY_CHUNK" ->
                LET acc == p.accumulated[requestId] \o msg.chunk
                IN  SetSummaryState(
                      RenderSummaryContent(
                        [p EXCEPT !.accumulated[requestId] = acc], acc),
                      "loading", "generating")
           [] msg.type = "SUMMARY_DONE" ->
                LET p1 == RemoveSummaryMessageListener(
                            SetSummaryState(p, "ready", "done"))
                IN  [p1 EXCEPT !.pendingSummary = 0,
                               !.summaryAbortController =
                                  IF @ = requestId THEN 0 ELSE @]
           [] msg.type = "SUMMARY_ERROR" ->
                LET p1 == RemoveSummaryMessageListener(
                            SetSummaryState(ClearSummaryContent(p), "error",
                                            msg.error))
                IN  [p1 EXCEPT !.pendingSummary = 0,
                               !.summaryAbortController =
                                  IF @ = requestId THEN 0 ELSE @]
           [] OTHER -> p

\* The 60 s timer of generateSummaryWithAI fires.
SummaryTimeout(p, requestId) ==
  LET p0 == [p EXCEPT !.sumTimers = @ \ {requestId}]
  IN  IF requestId \notin p0.sumAborted /\ IsCurrentRequest(p0, requestId)
        THEN LET p1 == RemoveSummaryMessageListener(
                         AbortSummaryController(p0, requestId))
                 p2 == SetSummaryState(ClearSummaryContent(p1), "error", "timeout")
             IN  [p2 EXCEPT !.pendingSummary = 0,
                            !.summaryAbortController =
                               IF @ = requestId THEN 0 ELSE @]
        ELSE p0

InitPanel(cfg) ==
  [requestCounter |-> 0, activeRequestId |-> 0, lastUrl |-> NoUrl,
   pendingSummary |-> 0, summaryAbortController |-> 0,
   summaryMessageListener |-> 0,
   panelState |-> "idle", summaryState |-> "idle",
   summaryStatus |-> "waitingPreview", summaryContent |-> EmptyContent,
   currentUrl |-> NoUrl, visible |-> FALSE, frameSrc |-> "",
   modelConfig |-> cfg,
   \* objects the component holds through closures
   sumAborted |-> {},   \* summary AbortControllers whose signal is aborted
   registered |-> {},   \* listeners added to chrome.runtime.onMessage
   sumTimers |-> {},    \* armed 60 s timers
   abortHooks |-> {},   \* controllers carrying the abort handler
   readySeen |-> FALSE, \* history: the model was ready at or after the last show
   readyAtShow |-> FALSE, \* history: the model was ready at the last show
   accumulated |-> [r \in Req |-> <<>>]]  \* accumulatedContent per session

\* ------------------------------------------------ worker: SSE record parser
SummaryMsg(type, chunk, error) == [type |-> type, chunk |-> chunk, error |-> error]

RECURSIVE SplitFrom(_, _, _)
SplitFrom(s, i, cur) ==
  IF i > Len(s) THEN <<cur>>
  ELSE IF s[i] = NL THEN <<cur>> \o SplitFrom(s, i + 1, <<>>)
       ELSE SplitFrom(s, i + 1, Append(cur, s[i]))

\* buffer.split('\n')
SplitLines(s) == SplitFrom(s, 1, <<>>)

RECURSIVE TrimLeft(_)
TrimLeft(s) == IF s # <<>> /\ Head(s) = SP THEN TrimLeft(Tail(s)) ELSE s

RECURSIVE TrimRight(_)
TrimRight(s) ==
  IF s # <<>> /\ s[Len(s)] = SP THEN TrimRight(SubSeq(s, 1, Len(s) - 1)) ELSE s

\* String.prototype.trim
Trim(s) == TrimRight(TrimLeft(s))

\* JSON.parse(payload).choices?.[0]?.delta?.content of a record payload:
\* <<>> stands for "threw, or no non-empty string content".
DeltaContent(payload) ==
  LET pl == Trim(payload)
  IN  IF Len(pl) = 1 /\ pl[1].t = "json" THEN pl[1].c ELSE <<>>

\* A variant of the loop body without the try/catch around JSON.parse: the
\* exception of a payload that is not JSON reaches the handler's catch, which
\* sends SUMMARY_ERROR.
ProcessLineFatal(line) ==
  LET trimmed == Trim(line)
  IN  IF trimmed = <<>> THEN <<>>
      ELSE IF trimmed = <<D, DONE>> THEN <<SummaryMsg("SUMMARY_DONE", <<>>, "")>>
      ELSE IF Head(trimmed) = D /\ DeltaContent(Tail(trimmed)) # <<>>
             THEN <<SummaryMsg("SUMMARY_CHUNK", DeltaContent(Tail(trimmed)), "")>>
             ELSE IF Head(trimmed) = D /\ \E i \in 2..Len(trimmed) : trimmed[i] = BAD
                    THEN <<SummaryMsg("SUMMARY_ERROR", <<>>, "parse")>>
                    ELSE <<>>

\* The body of the `for (const line of lines)` loop: the messages it sends.
ProcessLine(line) ==
  LET trimmed == Trim(line)
  IN  IF trimmed = <<>> THEN <<>>
      ELSE IF trimmed = <<D, DONE>> THEN <<SummaryMsg("SUMMARY_DONE", <<>>, "")>>
      ELSE IF Head(trimmed) = D /\ DeltaContent(Tail(trimmed)) # <<>>
             THEN <<SummaryMsg("SUMMARY_CHUNK", DeltaContent(Tail(trimmed)), "")>>
             ELSE <<>>

RECURSIVE ProcessLines(_)
ProcessLines(lines) ==
  IF lines = <<>> THEN <<>> ELSE ProcessLine(Head(lines)) \o ProcessLines(Tail(lines))

\* One iteration of the read loop on the value of one reader.read().
ReadStep(buffer, value) ==
  LET lines == SplitLines(buffer \o value)
  IN  [buffer |-> lines[Len(lines)],
       msgs |-> ProcessLines(SubSeq(lines, 1, Len(lines) - 1))]

\* After the loop (done = true): the rest of the buffer, then SUMMARY_DONE.
ReadEnd(buffer) ==
  (IF Trim(buffer) # <<>> /\ Trim(buffer) # <<D, DONE>>
        /\ Head(Trim(buffer)) = D /\ DeltaContent(Tail(Trim(buffer))) # <<>>
     THEN <<SummaryMsg("SUMMARY_CHUNK", DeltaContent(Tail(Trim(buffer))), "")>>
     ELSE <<>>)
  \o <<SummaryMsg("SUMMARY_DONE", <<>>, "")>>

\* sendToTab: the message as it travels, with the session that sent it.
RECURSIVE Tagged(_, _)
Tagged(msgs, r) ==
  IF msgs = <<>> THEN <<>>
  ELSE <<[type |-> Head(msgs).type, chunk |-> Head(msgs).chunk,
          error |-> Head(msgs).error, from |-> r]>> \o Tagged(Tail(msgs), r)

\* ------------------------------------------------- the summary prompt
\* A character of a prompt that is not white space.
CH == Tok("ch")

\* DEFAULT_SUMMARY_PROMPT: a text without white space at its ends, shorter
\* than the limit.
DefaultSummaryPrompt == <<CH, CH>>

\* The summaryPrompt of the objects handed to saveSettingsState: texts of
\* blanks and other characters; <<>> is '' or undefined.
RECURSIVE TextsOfLen(_)
TextsOfLen(n) ==
  IF n = 0 THEN {<<>>}
  ELSE {Append(t, c) : t \in TextsOfLen(n - 1), c \in {SP, CH}}
PromptInputs == UNION {TextsOfLen(n) : n \in 0..MaxPromptLen}

\* An update without a summaryPrompt: the spread keeps the current one.
NoPromptGiven == <<NL>>

\* String.prototype.slice(0, n)
SliceTo(s, n) == SubSeq(s, 1, IF Len(s) < n THEN Len(s) ELSE n)

\* sanitizeSummaryPrompt
SanitizeSummaryPrompt(text) ==
  LET trimmed == Trim(text)
      limited == SliceTo(trimmed, SummaryPromptLimit)
  IN  IF trimmed = <<>> THEN [value |-> DefaultSummaryPrompt, isDefault |-> TRUE]
      ELSE [value |-> limited, isDefault |-> limited = DefaultSummaryPrompt]

\* DEFAULT_SETTINGS.summaryPrompt, and the model state built from it.
InitialPrompt ==
  [given |-> <<>>, stored |-> DefaultSummaryPrompt,
   reported |-> DefaultSummaryPrompt, isDefault |-> TRUE]

\* saveSettingsState: sanitizeSettings of the update merged over the current
\* settings, persistSettings of the result, and the model state that
\* buildModelConfigState derives from the settings just stored.
SaveSettingsPrompt(update) ==
  LET given == IF update = NoPromptGiven THEN prompt.stored ELSE update
      next == SanitizeSummaryPrompt(given).value
      model == SanitizeSummaryPrompt(next)
  IN  /\ prompt' = [given |-> given, stored |-> next, reported |-> model.value,
                    isDefault |-> model.isDefault]
      /\ UNCHANGED <<previewVars, store, extract, loader, wAnswers>>

\* loadModelConfigState: resolveSettingsFromStorage sanitizes the stored
\* settings, buildModelConfigState sanitizes the prompt once more.
LoadModelConfigPrompt ==
  LET settings == SanitizeSummaryPrompt(prompt.stored).value
      model == SanitizeSummaryPrompt(settings)
  IN  /\ prompt' = [prompt EXCEPT !.reported = model.value,
                                  !.isDefault = model.isDefault]
      /\ UNCHANGED <<previewVars, store, extract, loader, wAnswers>>

\* ----------------------------------------------------------------- Init
\* ------------------------------------------------ settings and storage
\* chrome.storage.sync and chrome.storage.local hold three keys each:
\* glanceSettings, glanceSettingsSyncMeta and glanceModelSecrets.  A value
\* is a record with a kind; NoValue stands for a key that was never set.
NoValue == [kind |-> "absent"]
EmptyArea == [settings |-> NoValue, meta |-> NoValue, secret |-> NoValue]

ApiKeys == {"k1", "k2"}
Providers == {"openai", "custom"}

\* A settings object: of UserSettings the fields the storage logic reads
\* (the colour, the layout, the model name and the prompt are carried along
\* in the same way), and apiKey for a property of that name which the
\* object may carry besides ("": it has none).
SettingsValue(syncEnabled, provider, apiBaseUrl, apiKey) ==
  [kind |-> "settings", syncEnabled |-> syncEnabled, modelProvider |-> provider,
   apiBaseUrl |-> apiBaseUrl, apiKey |-> apiKey]

DefaultSettings == SettingsValue(TRUE, "openai", ApiBase, "")

\* The objects handed to saveSettingsState, merged over the current settings.
SettingsInputs ==
  {SettingsValue(e, p, u, k) :
     e \in BOOLEAN, p \in Providers, u \in {"", ApiBase}, k \in {"", "k1"}}

\* sanitizeApiBaseUrl: the given URL, else the preset of the provider (the
\* custom provider has none).
SanitizeApiBaseUrl(provider, url) ==
  IF url # "" THEN url ELSE IF provider = "custom" THEN "" ELSE ApiBase

\* A variant of sanitizeSettings that copies its input and overwrites the
\* known fields, so that any other property of the input is kept.
SanitizeSettingsSpreads(input) ==
  [input EXCEPT !.apiBaseUrl = SanitizeApiBaseUrl(input.modelProvider, @)]

\* sanitizeSettings: a fresh object of the known fields, each sanitized.
SanitizeSettings(input) ==
  SettingsValue(input.syncEnabled, input.modelProvider,
                SanitizeApiBaseUrl(input.modelProvider, input.apiBaseUrl), "")

SaveStatus(backend, usingSync, enabled, error) ==
  [backend |-> backend, usingSync |-> usingSync, enabled |-> enabled,
   error |-> error]

\* What the last call did with each area: "none" (no storage.set on it),
\* "ok" or "failed" (the outcome of its storage.set of the settings or of
\* the secret).
WriteOutcome(tried, ok) == IF ~tried THEN "none" ELSE IF ok THEN "ok" ELSE "failed"
LastCall(op, syncWrite, localWrite) ==
  [op |-> op, syncWrite |-> syncWrite, localWrite |-> localWrite]

InitStore(available) ==
  [available |-> available,      \* the host offers chrome.storage.sync
   sync |-> EmptyArea,
   local |-> EmptyArea,
   settings |-> DefaultSettings, \* the options page's copy of the settings
   status |-> SaveStatus("none", FALSE, TRUE, ""),
   last |-> LastCall("none", "none", "none")]

\* A variant of persistSettings that writes to the sync area whenever the
\* host offers one, whatever syncEnabled says.
PersistSettingsAlwaysSyncs(st, settings, syncOk, localOk, metaOk) ==
  LET trySync == st.available
      usingSync == trySync /\ syncOk
      error == IF trySync /\ ~syncOk THEN "syncWriteFailed"
               ELSE IF ~localOk THEN "localWriteFailed" ELSE ""
      backend == IF usingSync THEN "sync" ELSE IF localOk THEN "local" ELSE "none"
  IN  [st EXCEPT !.sync.settings = IF usingSync THEN settings ELSE @,
                 !.local.settings = IF localOk THEN settings ELSE @,
                 !.local.meta = IF metaOk
                                  THEN [kind |-> "meta", backend |-> backend,
                                        success |-> usingSync \/ localOk]
                                  ELSE @,
                 !.settings = settings,
                 !.status = SaveStatus(backend, usingSync, settings.syncEnabled, error),
                 !.last = LastCall("saveSettingsState", WriteOutcome(trySync, syncOk),
                                   WriteOutcome(TRUE, localOk))]

\* persistSettings: the sync write when syncEnabled and a sync area exists,
\* then the local write, then the metadata (local only), then the status.
\* syncOk, localOk, metaOk: the outcome of each storage.set.
PersistSettings(st, settings, syncOk, localOk, metaOk) ==
  LET trySync == settings.syncEnabled /\ st.available
      usingSync == trySync /\ syncOk
      error == IF trySync /\ ~syncOk THEN "syncWriteFailed"
               ELSE IF settings.syncEnabled /\ ~st.available THEN "noSyncHost"
               ELSE IF ~localOk THEN "localWriteFailed" ELSE ""
      backend == IF usingSync THEN "sync" ELSE IF localOk THEN "local" ELSE "none"
  IN  [st EXCEPT !.sync.settings = IF usingSync THEN settings ELSE @,
                 !.local.settings = IF localOk THEN settings ELSE @,
                 !.local.meta = IF metaOk
                                  THEN [kind |-> "meta", backend |-> backend,
                                        success |-> usingSync \/ localOk]
                                  ELSE @,
                 !.settings = settings,
                 !.status = SaveStatus(backend, usingSync, settings.syncEnabled, error),
                 !.last = LastCall("saveSettingsState", WriteOutcome(trySync, syncOk),
                                   WriteOutcome(TRUE, localOk))]

\* resolveSettingsFromStorage: the local copy, replaced by the sync copy when
\* sync is preferred and holds one, else the defaults; a copy that did not
\* come from the local area is written back to it (localOk: that write).
ResolveSettingsFromStorage(st, localOk) ==
  LET base == st.local.settings
      preferSync == (IF base = NoValue THEN TRUE ELSE base.syncEnabled)
                      /\ st.available
      fromSync == preferSync /\ st.sync.settings # NoValue
      settings == SanitizeSettings(IF fromSync THEN st.sync.settings
                                   ELSE IF base # NoValue THEN base
                                   ELSE DefaultSettings)
  IN  IF fromSync /\ localOk
        THEN [st EXCEPT !.local.settings = settings]
        ELSE st

\* writeModelSecret: the record goes to the local area under
\* glanceModelSecrets (key "": the record carries no apiKey).
WriteModelSecret(st, key) ==
  [st EXCEPT !.local.secret = [kind |-> "secret", apiKey |-> key]]

\* saveSettingsState(update, base) with the options page's settings as base.
SaveSettingsState(input, syncOk, localOk, metaOk) ==
  /\ store' = PersistSettings(store, SanitizeSettings(input), syncOk, localOk, metaOk)
  /\ UNCHANGED <<previewVars, unitVars, wAnswers>>

\* saveModelApiKey / clearModelApiKey: a failed secret write throws and ends
\* the call; otherwise the settings are resolved for the returned state.
SaveModelApiKey(key, secretOk, localOk) ==
  /\ store' = [(IF secretOk
                  THEN ResolveSettingsFromStorage(WriteModelSecret(store, key), localOk)
                  ELSE store)
               EXCEPT !.last = LastCall("saveModelApiKey", "none",
                                        WriteOutcome(TRUE, secretOk))]
  /\ UNCHANGED <<previewVars, unitVars, wAnswers>>

ClearModelApiKey(secretOk, localOk) ==
  /\ store' = [(IF secretOk
                  THEN ResolveSettingsFromStorage(WriteModelSecret(store, ""), localOk)
                  ELSE store)
               EXCEPT !.last = LastCall("clearModelApiKey", "none",
                                        WriteOutcome(TRUE, secretOk))]
  /\ UNCHANGED <<previewVars, unitVars, wAnswers>>

\* ------------------------------------------ extractMarkdownFromHtml
\* One record per call: the promise it returned, the caller's AbortSignal,
\* the abort listener and the timer of the call.
MaxExtractCalls == 2
ExtractCalls == 1..MaxExtractCalls

NoCall ==
  [stage |-> "none",         \* none, queued (microtask pending), done
   signal |-> "absent",      \* options.signal: absent, fresh, aborted
   onAbort |-> FALSE,        \* onAbort is attached to the signal
   timeoutId |-> "undefined",\* undefined, armed, cleared, fired
   promise |-> "none",       \* none, pending, resolved or the error's name
   settleCalls |-> 0,        \* history: calls of resolve / reject / throw
   parsed |-> FALSE]         \* history: DOMParser / Defuddle / Turndown ran

SignalStates == {"absent", "fresh", "aborted"}

\* resolve(..) / reject(..): a promise keeps its first settlement.
Settle(x, outcome) ==
  [x EXCEPT !.promise = IF @ = "pending" THEN outcome ELSE @,
            !.settleCalls = @ + 1]

\* A variant of cleanup that detaches the listener and leaves the timer.
CleanupKeepsTimer(x) == [x EXCEPT !.onAbort = FALSE]

\* cleanup(): removeEventListener('abort', onAbort), clearTimeout(timeoutId).
Cleanup(x) ==
  [x EXCEPT !.onAbort = FALSE,
            !.timeoutId = IF @ = "armed" THEN "cleared" ELSE @]

\* extractMarkdownFromHtml(html, url, {signal}) up to its return: the blank
\* test, the promise executor, the queued microtask.
ExtractCall(c, blank, signal) ==
  /\ extract[c].stage = "none"
  /\ \A d \in ExtractCalls : d < c => extract[d].stage # "none"
  /\ extract' = [extract EXCEPT ![c] =
       IF blank
         THEN [NoCall EXCEPT !.stage = "done", !.signal = signal,
                             !.promise = "EMPTY_DOCUMENT", !.settleCalls = 1]
       ELSE IF signal = "aborted"
         THEN [NoCall EXCEPT !.stage = "done", !.signal = signal,
                             !.promise = "AbortError", !.settleCalls = 1]
       ELSE [NoCall EXCEPT !.stage = "queued", !.signal = signal,
                           !.onAbort = (signal = "fresh"),
                           !.timeoutId = "armed", !.promise = "pending"]]
  /\ UNCHANGED <<previewVars, store, loader, prompt, wAnswers>>

\* The caller's controller aborts: the signal's abort event runs onAbort if
\* it is still attached.
ExtractAbort(c) ==
  /\ extract[c].stage # "none"
  /\ extract[c].signal = "fresh"
  /\ extract' = [extract EXCEPT ![c] =
       LET x == [extract[c] EXCEPT !.signal = "aborted"]
       IN  IF x.onAbort THEN Settle(Cleanup(x), "AbortError") ELSE x]
  /\ UNCHANGED <<previewVars, store, loader, prompt, wAnswers>>

\* The queued microtask: the aborted test, then the synchronous parse, which
\* returns markdown or throws.
ExtractMicrotask(c, throws) ==
  /\ extract[c].stage = "queued"
  /\ extract' = [extract EXCEPT ![c] =
       LET x == [extract[c] EXCEPT !.stage = "done"]
       IN  IF x.signal = "aborted"
             THEN Settle(Cleanup(x), "AbortError")
             ELSE Settle(Cleanup([x EXCEPT !.parsed = TRUE]),
                         IF throws THEN "SUMMARY_PARSE_FAILED" ELSE "resolved")]
  /\ UNCHANGED <<previewVars, store, loader, prompt, wAnswers>>

\* The timer callback.  The timer is armed before the microtask is queued and
\* is allowed to expire at any moment while armed, the moment before the
\* microtask included, which is more than an event loop does.
ExtractTimeout(c) ==
  /\ extract[c].timeoutId = "armed"
  /\ extract' = [extract EXCEPT ![c] =
       Settle(Cleanup([extract[c] EXCEPT !.timeoutId = "fired"]),
              "SUMMARY_PARSE_TIMEOUT")]
  /\ UNCHANGED <<previewVars, store, loader, prompt, wAnswers>>

\* ------------------------------------------------------ loadDocumentHtml
\* A URL is its origin, the directory part of its path and the last path
\* segment; `valid` is FALSE for a string that `new URL` refuses.
Url(origin, dir, file, valid) ==
  [origin |-> origin, dir |-> dir, file |-> file, valid |-> valid]
NoFinalUrl == Url("", "", "", FALSE)
RequestedUrls == {Url("a", "/d/", "x", TRUE), Url("rel", "", "", FALSE)}
FinalUrls == {NoFinalUrl, Url("a", "/d/", "x", TRUE), Url("b", "/e/", "y", TRUE)}

\* A document is a sequence of tokens: the head opening tag, another tag
\* whose name starts with `head` (header), any other markup, and the base
\* tag with its href.
Tag(name) == [t |-> name, href |-> NoFinalUrl]
BaseTag(href) == [t |-> "base", href |-> href]
Documents ==
  { <<Tag("p")>>,
    <<Tag("head"), Tag("p")>>,
    <<Tag("html"), Tag("head"), Tag("p")>>,
    <<Tag("header"), Tag("p")>>,
    <<Tag("p"), Tag("header"), Tag("head")>>,
    <<>> }

\* computeBaseHref: origin and path without its last segment, or the string
\* itself when it does not parse.
ComputeBaseHref(url) == IF url.valid THEN [url EXCEPT !.file = ""] ELSE url

\* /<head[^>]*>/i matches the opening tag of every element whose name starts
\* with `head`.
MatchesHeadPattern(tok) == tok.t \in {"head", "header"}

\* html.replace(pattern, match => match + baseTag): the first match only.
RECURSIVE InsertAfterFirstMatch(_, _)
InsertAfterFirstMatch(html, baseTag) ==
  IF html = <<>> THEN <<>>
  ELSE IF MatchesHeadPattern(Head(html))
    THEN <<Head(html), baseTag>> \o Tail(html)
    ELSE <<Head(html)>> \o InsertAfterFirstMatch(Tail(html), baseTag)

RewriteHtml(html, url) ==
  LET baseTag == BaseTag(ComputeBaseHref(url))
  IN  IF \E i \in 1..Len(html) : MatchesHeadPattern(html[i])
        THEN InsertAfterFirstMatch(html, baseTag)
        ELSE <<baseTag>> \o html

NoLoad ==
  [stage |-> "none", path |-> "none", url |-> NoFinalUrl, finalUrl |-> NoFinalUrl,
   body |-> <<>>, result |-> <<>>]

\* loadDocumentHtml(url, signal): fetchViaBackground when the extension
\* runtime is there, fetchDirectly otherwise; the retrieval ends at finalUrl
\* with the given body.
LoadDocumentHtml(runtime, url, finalUrl, body) ==
  /\ loader.stage # "pending"
  /\ loader' = [stage |-> "pending",
                path |-> IF runtime THEN "background" ELSE "direct",
                url |-> url, finalUrl |-> finalUrl, body |-> body,
                result |-> <<>>]
  /\ UNCHANGED <<previewVars, store, extract, prompt, wAnswers>>

\* The retrieval succeeds.  fetchViaBackground hands rewriteHtml
\* response.finalUrl || url, fetchDirectly hands it url.
LoadResolves ==
  /\ loader.stage = "pending"
  /\ loader' = [loader EXCEPT
       !.stage = "resolved",
       !.result = IF loader.path = "background"
                    THEN RewriteHtml(loader.body,
                                     IF loader.finalUrl = NoFinalUrl
                                       THEN loader.url ELSE loader.finalUrl)
                    ELSE RewriteHtml(loader.body, loader.url)]
  /\ UNCHANGED <<previewVars, store, extract, prompt, wAnswers>>

\* sendResponse calls of the worker's message listener: per request the
\* answers to its FETCH_DOCUMENT and ADD_CSP_BYPASS; for CLEAR_CSP_BYPASS the
\* messages received and not answered yet; the answers given to messages
\* whose url is not a string.
NoAnswers ==
  [fetch |-> [r \in Req |-> 0], bypass |-> [r \in Req |-> 0],
   clearOwed |-> 0, invalid |-> 0]

\* A variant of a handler's answer that calls sendResponse a second time.
SendResponseTwice(a, kind, r) == [a EXCEPT ![kind][r] = @ + 2]

SendResponse(a, kind, r) == [a EXCEPT ![kind][r] = @ + 1]

InitPreview ==
  /\ \E cfg \in ConfigStates : panel = InitPanel(cfg)
  /\ extract = [c \in ExtractCalls |-> NoCall]
  /\ loader = NoLoad
  /\ prompt = InitialPrompt
  /\ wAnswers = NoAnswers
  /\ currentController = 0
  /\ csActiveRequestId = 0
  /\ loadAborted = {}
  /\ load = [r \in Req |-> "none"]
  /\ reqUrl = [r \in Req |-> NoUrl]
  /\ render = [r \in Req |-> "none"]
  /\ gen = [r \in Req |-> "none"]
  /\ onLoadListeners = {}
  /\ frameLoadPending = FALSE
  /\ toWorker = <<>>
  /\ toTab = <<>>
  /\ fetchResp = [r \in Req |-> "none"]
  /\ bypassResp = [r \in Req |-> FALSE]
  /\ activeRuleIds = <<>>
  /\ ruleIdCounter = RuleIdStart
  /\ installed = {}
  /\ apiQueue = <<>>
  /\ apiFailed = FALSE
  /\ clearResp = "none"
  /\ wFetch = [r \in Req |-> "none"]
  /\ wFetchTimer = [r \in Req |-> "none"]
  /\ wSum = [r \in Req |-> "none"]
  /\ wSumTimer = [r \in Req |-> "none"]
  /\ wBuffer = [r \in Req |-> <<>>]
  /\ wBody = [r \in Req |-> <<>>]
  /\ wBodyAll = [r \in Req |-> <<>>]
  /\ wStatus = [r \in Req |-> 0]
  /\ wSent = [r \in Req |-> <<>>]
  /\ closesInRow = 0

\* The state after construction, in a browser that offers a sync area.
Init == InitPreview /\ store = InitStore(TRUE)

ToWorker(type, r, url) == [type |-> type, req |-> r, url |-> url]

\* ------------------------------------------------- content script actions
\* A variant of the `.finally` that drops the controller whatever the request.
FinallyControllerAlwaysNulls(cc, aborted, active, requestId) == 0

\* index.ts `.finally`: the value of currentController after it.
FinallyController(cc, aborted, active, requestId) ==
  IF cc # 0 /\ cc \in aborted THEN 0
  ELSE IF active = requestId THEN 0
  ELSE cc

\* A variant of the trigger handler that clears the bypass rules of the
\* previous request before it starts the new one.
TriggerClearsRules(url) ==
  /\ panel.requestCounter < MaxRequests
  /\ LET r == panel.requestCounter + 1
     IN  /\ loadAborted' = IF currentController # 0
                             THEN loadAborted \cup {currentController}
                             ELSE loadAborted
         /\ load' = [q \in Req |->
                       IF q = r THEN "pending"
                       ELSE IF q = currentController /\ load[q] = "pending"
                              THEN "rejected" ELSE load[q]]
         /\ currentController' = r
         /\ panel' = Show(panel, url)
         /\ csActiveRequestId' = r
         /\ reqUrl' = [reqUrl EXCEPT ![r] = url]
         /\ toWorker' = toWorker \o <<ToWorker("CLEAR_CSP_BYPASS", 0, NoUrl),
                                     ToWorker("FETCH_DOCUMENT", r, url)>>
  /\ closesInRow' = 0
  /\ UNCHANGED <<render, gen, onLoadListeners, frameLoadPending, toTab, fetchResp,
                 bypassResp, ruleVars, wFetchVars, wSumVars,
                 store, unitVars, wAnswers>>

\* onTrigger: abort the previous load, panel.show, start loadDocumentHtml
\* (fetchViaBackground sends FETCH_DOCUMENT).  The abort rejects a pending
\* load; its catch runs after this handler, when currentController is the
\* new controller, so showError is called for the old id and does nothing.
Trigger(url) ==
  /\ panel.requestCounter < MaxRequests
  /\ LET r == panel.requestCounter + 1
     IN  /\ loadAborted' = IF currentController # 0
                             THEN loadAborted \cup {currentController}
                             ELSE loadAborted
         /\ load' = [q \in Req |->
                       IF q = r THEN "pending"
                       ELSE IF q = currentController /\ load[q] = "pending"
                              THEN "rejected" ELSE load[q]]
         /\ currentController' = r
         /\ panel' = Show(panel, url)
         /\ csActiveRequestId' = r
         /\ reqUrl' = [reqUrl EXCEPT ![r] = url]
         /\ toWorker' = Append(toWorker, ToWorker("FETCH_DOCUMENT", r, url))
  /\ closesInRow' = 0
  /\ UNCHANGED <<render, gen, onLoadListeners, frameLoadPending, toTab, fetchResp,
                 bypassResp, ruleVars, wFetchVars, wSumVars,
                 store, unitVars, wAnswers>>

\* The part of close() that runs in the caller's task, for every route.
CloseEffects ==
  /\ panel' = Close(panel)
  /\ frameLoadPending' = FALSE
  /\ toWorker' = Append(toWorker, ToWorker("CLEAR_CSP_BYPASS", 0, NoUrl))
  /\ closesInRow' = closesInRow + 1

\* keydown Escape: panel.close(), then abort and drop the load controller.
\* The rejected load's catch sees currentController = null, calls showError
\* for an id that is no longer active.
EscapeKey ==
  /\ closesInRow < MaxCloses
  /\ CloseEffects
  /\ loadAborted' = IF currentController # 0
                      THEN loadAborted \cup {currentController} ELSE loadAborted
  /\ load' = [q \in Req |->
                IF q = currentController /\ load[q] = "pending"
                  THEN "rejected" ELSE load[q]]
  /\ currentController' = 0
  /\ UNCHANGED <<csActiveRequestId, reqUrl, render, gen, onLoadListeners, toTab,
                 fetchResp, bypassResp, ruleVars, wFetchVars, wSumVars,
                 store, unitVars, wAnswers>>

\* Close button, or a click outside the visible panel: panel.close() only.
ClosePanel ==
  /\ panel.visible
  /\ closesInRow < MaxCloses
  /\ CloseEffects
  /\ UNCHANGED <<currentController, csActiveRequestId, loadAborted, load, reqUrl,
                 render, gen, onLoadListeners, toTab, fetchResp, bypassResp,
                 ruleVars, wFetchVars, wSumVars,
                 store, unitVars, wAnswers>>

\* refreshModelConfig resolves: panel.updateModelConfig(nextState).
ModelConfigUpdated(next) ==
  /\ panel' = UpdateModelConfig(panel, next)
  /\ panel' # panel
  /\ UNCHANGED <<currentController, csActiveRequestId, loadAborted, load, reqUrl,
                 render, gen, onLoadListeners, frameLoadPending, chanVars,
                 ruleVars, wFetchVars, wSumVars, closesInRow,
                 store, unitVars, wAnswers>>

\* A variant of the failure path that asks the worker for the document again.
FetchFailureRetries(r) ==
  /\ toWorker' = Append(toWorker, ToWorker("FETCH_DOCUMENT", r, reqUrl[r]))
  /\ UNCHANGED <<load, panel, currentController, render>>

\* loadDocumentHtml rejects without an abort: the catch and the finally of
\* onTrigger.
FetchFailure(r) ==
  /\ load' = [load EXCEPT ![r] = "rejected"]
  /\ panel' = IF currentController # 0 /\ currentController \in loadAborted
                THEN panel
                ELSE ShowError(panel, r, "cannotPreview")
  /\ currentController' =
       FinallyController(currentController, loadAborted, csActiveRequestId, r)
  /\ UNCHANGED <<render, toWorker>>

\* The FETCH_DOCUMENT response callback of fetchViaBackground, and the
\* then / catch / finally of onTrigger that follow from it.  The repository
\* holds two panels: the component (part_002), whose renderHtml goes on to the
\* bypass whatever the model state, and the class (previewPanel.ts), whose
\* renderHtml returns when canSummarize() is false.
FetchResponseOf(r, classPanel) ==
  /\ fetchResp[r] # "none"
  /\ fetchResp' = [fetchResp EXCEPT ![r] = "none"]
  /\ IF load[r] # "pending" \/ r \in loadAborted
       THEN \* already rejected by the abort listener: reject again is a no-op
            UNCHANGED <<panel, currentController, load, render, toWorker>>
       ELSE IF fetchResp[r] = "fail"
         THEN FetchFailure(r)
         ELSE /\ load' = [load EXCEPT ![r] = "resolved"]
              /\ IF IsCurrentRequest(panel, r) /\ (classPanel => CanSummarize(panel))
                   THEN /\ panel' = RenderHtmlStart(panel, r)
                        /\ toWorker' = Append(toWorker,
                                              ToWorker("ADD_CSP_BYPASS", r, reqUrl[r]))
                        /\ render' = [render EXCEPT ![r] = "awaitBypass"]
                        /\ UNCHANGED currentController
                   ELSE /\ render' = [render EXCEPT ![r] = "done"]
                        /\ currentController' =
                             FinallyController(currentController, loadAborted,
                                               csActiveRequestId, r)
                        /\ UNCHANGED <<panel, toWorker>>
  /\ UNCHANGED <<csActiveRequestId, loadAborted, reqUrl, gen, onLoadListeners,
                 frameLoadPending, toTab, bypassResp, ruleVars, wFetchVars,
                 wSumVars, closesInRow,
                 store, unitVars, wAnswers>>

FetchResponse(r) == FetchResponseOf(r, FALSE)

\* The same with the PreviewPanel class of previewPanel.ts.
FetchResponseClass(r) == FetchResponseOf(r, TRUE)

\* renderHtml after the ADD_CSP_BYPASS reply: register onLoad, set frame.src;
\* then the finally of onTrigger.
RenderContinue(r) ==
  /\ render[r] = "awaitBypass"
  /\ bypassResp[r]
  /\ bypassResp' = [bypassResp EXCEPT ![r] = FALSE]
  /\ render' = [render EXCEPT ![r] = "done"]
  /\ onLoadListeners' = onLoadListeners \cup {r}
  /\ panel' = [panel EXCEPT !.frameSrc = reqUrl[r]]
  /\ frameLoadPending' = TRUE
  /\ currentController' =
       FinallyController(currentController, loadAborted, csActiveRequestId, r)
  /\ UNCHANGED <<csActiveRequestId, loadAborted, load, reqUrl, gen, toWorker, toTab,
                 fetchResp, ruleVars, wFetchVars, wSumVars, closesInRow,
                 store, unitVars, wAnswers>>

RECURSIVE RunOnLoad(_, _, _)
RunOnLoad(p, listeners, outcome) ==
  IF listeners = {} THEN p
  ELSE LET r == CHOOSE x \in listeners : \A y \in listeners : x <= y
       IN  RunOnLoad(OnLoad(p, r, outcome), listeners \ {r}, outcome)

\* The frame fires its load event: every registered onLoad runs and removes
\* itself; the one of the active request starts extraction, and a non-empty
\* extraction result enters generateSummaryWithAI up to `await getModelApiKey()`.
FrameLoad(outcome) ==
  /\ frameLoadPending
  /\ frameLoadPending' = FALSE
  /\ onLoadListeners' = {}
  /\ panel' = RunOnLoad(panel, onLoadListeners, outcome)
  /\ gen' = [r \in Req |->
               IF /\ r \in onLoadListeners
                  /\ IsCurrentRequest(panel, r)
                  /\ BeginStarts(panel, r)
                  /\ outcome = "text"
                  /\ GenerateStarts(panel', r)
                 THEN "awaitKey" ELSE gen[r]]
  /\ UNCHANGED <<currentController, csActiveRequestId, loadAborted, load, reqUrl,
                 render, chanVars, ruleVars, wFetchVars, wSumVars, closesInRow,
                 store, unitVars, wAnswers>>

\* The document shown in the frame navigates (a redirect, a link followed
\* inside the preview): the frame will fire its load event once more.
FrameNavigates ==
  /\ panel.frameSrc # ""
  /\ ~frameLoadPending
  /\ frameLoadPending' = TRUE
  /\ UNCHANGED <<panel, currentController, csActiveRequestId, loadAborted, load,
                 reqUrl, render, gen, onLoadListeners, chanVars, ruleVars,
                 wFetchVars, wSumVars, closesInRow,
                 store, unitVars, wAnswers>>

\* modelConfig.apiBaseUrl as copied into a GENERATE_SUMMARY message: a ready
\* config has one (buildModelConfigState), a config that is not ready lacks
\* the key, the base URL or the model name, so its base URL may be empty.
ApiBaseUrlsOf(cfg) == IF cfg = "ready" THEN {ApiBase} ELSE {ApiBase, NoUrl}

\* getModelApiKey() answers: no key, or a key and the rest of the function.
\* The url field of GENERATE_SUMMARY carries modelConfig.apiBaseUrl.
GenerateContinue(r, hasKey) ==
  /\ gen[r] = "awaitKey"
  /\ gen' = [gen EXCEPT ![r] = "done"]
  /\ IF hasKey
       THEN /\ panel' = GenerateSend(panel, r)
            /\ \E base \in ApiBaseUrlsOf(panel.modelConfig) :
                 toWorker' = Append(toWorker, ToWorker("GENERATE_SUMMARY", r, base))
       ELSE /\ panel' = GenerateNoKey(panel)
            /\ UNCHANGED toWorker
  /\ UNCHANGED <<currentController, csActiveRequestId, loadAborted, load, reqUrl,
                 render, onLoadListeners, frameLoadPending, toTab, fetchResp,
                 bypassResp, ruleVars, wFetchVars, wSumVars, closesInRow,
                 store, unitVars, wAnswers>>

RECURSIVE Deliver(_, _, _)
Deliver(p, listeners, msg) ==
  IF listeners = {} THEN p
  ELSE LET r == CHOOSE x \in listeners : \A y \in listeners : x <= y
       IN  Deliver(MessageListener(p, r, msg), listeners \ {r}, msg)

\* chrome.runtime.onMessage in the tab: the next summary message is handed
\* to every registered listener.
TabReceive ==
  /\ toTab # <<>>
  /\ toTab' = Tail(toTab)
  /\ panel' = Deliver(panel, panel.registered, Head(toTab))
  /\ UNCHANGED <<currentController, csActiveRequestId, loadAborted, load, reqUrl,
                 render, gen, onLoadListeners, frameLoadPending, toWorker,
                 fetchResp, bypassResp, ruleVars, wFetchVars, wSumVars, closesInRow,
                 store, unitVars, wAnswers>>

\* The 60 s timer set by generateSummaryWithAI fires.
SummaryTimerFire(r) ==
  /\ r \in panel.sumTimers
  /\ panel' = SummaryTimeout(panel, r)
  /\ UNCHANGED <<currentController, csActiveRequestId, loadAborted, load, reqUrl,
                 render, gen, onLoadListeners, frameLoadPending, chanVars,
                 ruleVars, wFetchVars, wSumVars, closesInRow,
                 store, unitVars, wAnswers>>

\* ------------------------------------------------ worker: rule management
RECURSIVE SeqToSet(_)
SeqToSet(s) == IF s = <<>> THEN {} ELSE {Head(s)} \cup SeqToSet(Tail(s))

ApiCall(op, ids, r) == [op |-> op, ids |-> ids, req |-> r]

\* ADD_CSP_BYPASS handler up to the await inside addCspBypassRule.
RecvAddCspBypass ==
  /\ toWorker # <<>>
  /\ Head(toWorker).type = "ADD_CSP_BYPASS"
  /\ Head(toWorker).url # NotAString
  /\ toWorker' = Tail(toWorker)
  /\ ruleIdCounter' = ruleIdCounter + 1
  /\ apiQueue' = Append(apiQueue, ApiCall("add", <<ruleIdCounter>>, Head(toWorker).req))
  /\ UNCHANGED <<contentVars, toTab, fetchResp, bypassResp, activeRuleIds, installed,
                 apiFailed, clearResp, wFetchVars, wSumVars, closesInRow,
                 store, unitVars, wAnswers>>

\* A variant of clearCspBypassRules that forgets the tracked ids whether or
\* not the removal succeeded.
ClearCspBypassRulesForgets(tracked, ok) == <<>>

\* The answer of the CLEAR_CSP_BYPASS handler: {ok: false} only when
\* clearCspBypassRules has thrown, which its own catch never lets happen.
ClearAnswer(thrown) == IF thrown THEN "error" ELSE "ok"

\* CLEAR_CSP_BYPASS handler up to the await inside clearCspBypassRules; with
\* nothing tracked it returns at once and answers {ok: true}.
RecvClearCspBypass ==
  /\ toWorker # <<>>
  /\ Head(toWorker).type = "CLEAR_CSP_BYPASS"
  /\ toWorker' = Tail(toWorker)
  /\ apiQueue' = IF Len(activeRuleIds) = 0
                   THEN apiQueue
                   ELSE Append(apiQueue, ApiCall("remove", activeRuleIds, 0))
  /\ clearResp' = IF Len(activeRuleIds) = 0 THEN ClearAnswer(FALSE) ELSE clearResp
  /\ wAnswers' = IF Len(activeRuleIds) = 0
                   THEN wAnswers
                   ELSE [wAnswers EXCEPT !.clearOwed = @ + 1]
  /\ UNCHANGED <<contentVars, toTab, fetchResp, bypassResp, activeRuleIds,
                 ruleIdCounter, installed, apiFailed, wFetchVars, wSumVars,
                 closesInRow,
                 store, unitVars>>

\* addCspBypassRule after updateSessionRules({addRules}) has settled.
AddCspBypassRule(tracked, ruleId, ok) ==
  IF ok THEN Append(tracked, ruleId) ELSE tracked

\* clearCspBypassRules after updateSessionRules({removeRuleIds}) has settled.
ClearCspBypassRules(tracked, ok) ==
  IF ok THEN <<>> ELSE tracked

\* chrome.declarativeNetRequest.updateSessionRules settles the oldest pending
\* call (calls are served in order), and the awaiting handler resumes.
UpdateSessionRulesSettles(ok) ==
  /\ apiQueue # <<>>
  /\ apiQueue' = Tail(apiQueue)
  /\ LET call == Head(apiQueue)
     IN  IF call.op = "add"
           THEN /\ installed' = IF ok THEN installed \cup SeqToSet(call.ids)
                                      ELSE installed
                /\ activeRuleIds' = AddCspBypassRule(activeRuleIds, call.ids[1], ok)
                /\ bypassResp' = [bypassResp EXCEPT ![call.req] = TRUE]
                /\ wAnswers' = SendResponse(wAnswers, "bypass", call.req)
                /\ UNCHANGED clearResp
           ELSE /\ installed' = IF ok THEN installed \ SeqToSet(call.ids)
                                      ELSE installed
                /\ activeRuleIds' = ClearCspBypassRules(activeRuleIds, ok)
                /\ clearResp' = ClearAnswer(FALSE)
                /\ wAnswers' = [wAnswers EXCEPT !.clearOwed = @ - 1]
                /\ UNCHANGED bypassResp
  /\ apiFailed' = (apiFailed \/ ~ok)
  /\ UNCHANGED <<contentVars, toWorker, toTab, fetchResp, ruleIdCounter,
                 wFetchVars, wSumVars, closesInRow,
                 store, unitVars>>

\* ----------------------------------------------- worker: FETCH_DOCUMENT
\* Handler entry: new AbortController, 10 s timer, fetch(url) started.
RecvFetchDocument ==
  /\ toWorker # <<>>
  /\ Head(toWorker).type = "FETCH_DOCUMENT"
  /\ Head(toWorker).url # NotAString
  /\ toWorker' = Tail(toWorker)
  /\ wFetch' = [wFetch EXCEPT ![Head(toWorker).req] = "headers"]
  /\ wFetchTimer' = [wFetchTimer EXCEPT ![Head(toWorker).req] = "armed"]
  /\ UNCHANGED <<contentVars, toTab, fetchResp, bypassResp, ruleVars, wSumVars,
                 closesInRow,
                 store, unitVars, wAnswers>>

\* fetch() resolves with the response headers: clearTimeout, then either
\* `throw new Error('HTTP ...')` into the catch, or the body read starts.
FetchHeaders(r, ok) ==
  /\ wFetch[r] = "headers"
  /\ wFetchTimer' = [wFetchTimer EXCEPT ![r] = "cleared"]
  /\ IF ok
       THEN /\ wFetch' = [wFetch EXCEPT ![r] = "body"]
            /\ UNCHANGED <<fetchResp, wAnswers>>
       ELSE /\ wFetch' = [wFetch EXCEPT ![r] = "done"]
            /\ fetchResp' = [fetchResp EXCEPT ![r] = "fail"]
            /\ wAnswers' = SendResponse(wAnswers, "fetch", r)
  /\ UNCHANGED <<contentVars, toWorker, toTab, bypassResp, ruleVars, wSumVars,
                 closesInRow,
                 store, unitVars>>

\* response.text() resolves: sendResponse({ok: true, body, finalUrl}).
FetchBody(r) ==
  /\ wFetch[r] = "body"
  /\ wFetch' = [wFetch EXCEPT ![r] = "done"]
  /\ fetchResp' = [fetchResp EXCEPT ![r] = "ok"]
  /\ wAnswers' = SendResponse(wAnswers, "fetch", r)
  /\ UNCHANGED <<contentVars, toWorker, toTab, bypassResp, ruleVars, wFetchTimer,
                 wSumVars, closesInRow,
                 store, unitVars>>

\* fetch() or response.text() rejects (network failure): the catch answers
\* {ok: false}; the catch does not clear the timer.
FetchNetworkError(r) ==
  /\ wFetch[r] \in {"headers", "body"}
  /\ wFetch' = [wFetch EXCEPT ![r] = "done"]
  /\ fetchResp' = [fetchResp EXCEPT ![r] = "fail"]
  /\ wAnswers' = SendResponse(wAnswers, "fetch", r)
  /\ UNCHANGED <<contentVars, toWorker, toTab, bypassResp, ruleVars, wFetchTimer,
                 wSumVars, closesInRow,
                 store, unitVars>>

\* 10 s have passed since the handler started and it has not finished.  An
\* armed timer runs controller.abort(), which rejects the fetch() waiting for
\* headers; a cleared timer runs nothing.
FetchDeadline(r) ==
  /\ wFetch[r] \in {"headers", "body"}
  /\ wFetchTimer[r] \in {"armed", "cleared"}
  /\ wFetchTimer' = [wFetchTimer EXCEPT ![r] = "elapsed"]
  /\ IF wFetchTimer[r] = "armed" /\ wFetch[r] = "headers"
       THEN /\ wFetch' = [wFetch EXCEPT ![r] = "done"]
            /\ fetchResp' = [fetchResp EXCEPT ![r] = "fail"]
            /\ wAnswers' = SendResponse(wAnswers, "fetch", r)
       ELSE UNCHANGED <<wFetch, fetchResp, wAnswers>>
  /\ UNCHANGED <<contentVars, toWorker, toTab, bypassResp, ruleVars, wSumVars,
                 closesInRow,
                 store, unitVars>>

\* ------------------------------------- worker: messages with a bad url
\* Some sender of the extension (a page, another content script) sends a
\* FETCH_DOCUMENT or ADD_CSP_BYPASS whose url is not a string.
BadMessagesSent ==
  wAnswers.invalid
    + Cardinality({i \in 1..Len(toWorker) : toWorker[i].url = NotAString})

SendBadUrl(type) ==
  /\ BadMessagesSent < MaxBadMessages
  /\ toWorker' = Append(toWorker, ToWorker(type, 0, NotAString))
  /\ UNCHANGED <<contentVars, toTab, fetchResp, bypassResp, ruleVars, wFetchVars,
                 wSumVars, closesInRow, store, unitVars, wAnswers>>

\* The listener finds `typeof url !== 'string'`: sendResponse({ok: false,
\* error: 'INVALID_URL'}) and return false.
RecvInvalidUrl ==
  /\ toWorker # <<>>
  /\ Head(toWorker).type \in {"FETCH_DOCUMENT", "ADD_CSP_BYPASS"}
  /\ Head(toWorker).url = NotAString
  /\ toWorker' = Tail(toWorker)
  /\ wAnswers' = [wAnswers EXCEPT !.invalid = @ + 1]
  /\ UNCHANGED <<contentVars, toTab, fetchResp, bypassResp, ruleVars,
                 wFetchVars, wSumVars, closesInRow, store, unitVars>>

\* --------------------------------------------- worker: GENERATE_SUMMARY
SendToTab(r, msgs) ==
  /\ toTab' = toTab \o Tagged(msgs, r)
  /\ wSent' = [wSent EXCEPT ![r] = @ \o msgs]

\* Handler entry: parameters and tab id are valid, sendResponse({ok: true}),
\* new AbortController, 60 s timer, fetch(endpoint) started.
RecvGenerateSummary ==
  /\ toWorker # <<>>
  /\ Head(toWorker).type = "GENERATE_SUMMARY"
  /\ toWorker' = Tail(toWorker)
  /\ wSum' = [wSum EXCEPT ![Head(toWorker).req] = "headers"]
  /\ wSumTimer' = [wSumTimer EXCEPT ![Head(toWorker).req] = "armed"]
  /\ UNCHANGED <<contentVars, toTab, fetchResp, bypassResp, ruleVars, wFetchVars,
                 wBuffer, wBody, wBodyAll, wStatus, wSent,
                 closesInRow,
                 store, unitVars, wAnswers>>

\* fetch() resolves with a 2xx response: clearTimeout, reader obtained.
SummaryHeadersOk(r, body) ==
  /\ wSum[r] = "headers"
  /\ wSumTimer' = [wSumTimer EXCEPT ![r] = "cleared"]
  /\ wSum' = [wSum EXCEPT ![r] = "reading"]
  /\ wBody' = [wBody EXCEPT ![r] = body]
  /\ wBodyAll' = [wBodyAll EXCEPT ![r] = body]
  /\ wStatus' = [wStatus EXCEPT ![r] = 200]
  /\ wBuffer' = [wBuffer EXCEPT ![r] = <<>>]
  /\ UNCHANGED <<contentVars, toWorker, toTab, fetchResp, bypassResp, ruleVars,
                 wFetchVars, wSent, closesInRow,
                 store, unitVars, wAnswers>>

\* The error text of a non-2xx response: `HTTP <status>`, followed by the
\* provider's error.message or message when the body parses as JSON and has
\* one, else by the first 160 characters of the body text when it can be
\* read and is not empty.
HttpStatuses == {401, 500}
HttpDetails == {"none", "provider", "text"}
HttpErrorMessage(status, detail) ==
  CASE status = 401 /\ detail = "none" -> "HTTP 401"
    [] status = 401 /\ detail = "provider" -> "HTTP 401 - provider detail"
    [] status = 401 /\ detail = "text" -> "HTTP 401 - body text"
    [] status = 500 /\ detail = "none" -> "HTTP 500"
    [] status = 500 /\ detail = "provider" -> "HTTP 500 - provider detail"
    [] OTHER -> "HTTP 500 - body text"

\* A variant of the non-2xx branch without its `return`: after the error the
\* handler goes on to the end of the stream and sends SUMMARY_DONE.
SummaryHeadersNotOkGoesOn(r, status, detail) ==
  /\ wSum[r] = "headers"
  /\ wSumTimer' = [wSumTimer EXCEPT ![r] = "cleared"]
  /\ wSum' = [wSum EXCEPT ![r] = "done"]
  /\ wStatus' = [wStatus EXCEPT ![r] = status]
  /\ SendToTab(r, <<SummaryMsg("SUMMARY_ERROR", <<>>, HttpErrorMessage(status, detail)),
                    SummaryMsg("SUMMARY_DONE", <<>>, "")>>)
  /\ UNCHANGED <<contentVars, toWorker, fetchResp, bypassResp, ruleVars,
                 wFetchVars, wBuffer, wBody, wBodyAll, closesInRow,
                 store, unitVars, wAnswers>>

\* fetch() resolves with a non-2xx response: clearTimeout, the body is read
\* for a detail, one SUMMARY_ERROR, return.
SummaryHeadersNotOk(r, status, detail) ==
  /\ wSum[r] = "headers"
  /\ wSumTimer' = [wSumTimer EXCEPT ![r] = "cleared"]
  /\ wSum' = [wSum EXCEPT ![r] = "done"]
  /\ wStatus' = [wStatus EXCEPT ![r] = status]
  /\ SendToTab(r, <<SummaryMsg("SUMMARY_ERROR", <<>>, HttpErrorMessage(status, detail))>>)
  /\ UNCHANGED <<contentVars, toWorker, fetchResp, bypassResp, ruleVars,
                 wFetchVars, wBuffer, wBody, wBodyAll, closesInRow,
                 store, unitVars, wAnswers>>

\* reader.read() yields the next network read.
SummaryRead(r) ==
  /\ wSum[r] = "reading"
  /\ wBody[r] # <<>>
  /\ wBody' = [wBody EXCEPT ![r] = Tail(@)]
  /\ LET step == ReadStep(wBuffer[r], Head(wBody[r]))
     IN  /\ wBuffer' = [wBuffer EXCEPT ![r] = step.buffer]
         /\ SendToTab(r, step.msgs)
  /\ UNCHANGED <<contentVars, toWorker, fetchResp, bypassResp, ruleVars,
                 wFetchVars, wSum, wSumTimer, wBodyAll, wStatus, closesInRow,
                 store, unitVars, wAnswers>>

\* reader.read() yields done: the rest of the buffer, SUMMARY_DONE.
SummaryReadEnd(r) ==
  /\ wSum[r] = "reading"
  /\ wBody[r] = <<>>
  /\ wSum' = [wSum EXCEPT ![r] = "done"]
  /\ wBuffer' = [wBuffer EXCEPT ![r] = <<>>]
  /\ SendToTab(r, ReadEnd(wBuffer[r]))
  /\ UNCHANGED <<contentVars, toWorker, fetchResp, bypassResp, ruleVars,
                 wFetchVars, wSumTimer, wBody, wBodyAll, wStatus, closesInRow,
                 store, unitVars, wAnswers>>

\* fetch() or reader.read() rejects without an abort: the catch clears the
\* timer and sends SUMMARY_ERROR (network failure).
SummaryNetworkError(r) ==
  /\ wSum[r] \in {"headers", "reading"}
  /\ wSum' = [wSum EXCEPT ![r] = "done"]
  /\ wSumTimer' = [wSumTimer EXCEPT ![r] = "cleared"]
  /\ SendToTab(r, <<SummaryMsg("SUMMARY_ERROR", <<>>, "network")>>)
  /\ UNCHANGED <<contentVars, toWorker, fetchResp, bypassResp, ruleVars,
                 wFetchVars, wBuffer, wBody, wBodyAll, wStatus, closesInRow,
                 store, unitVars, wAnswers>>

\* 60 s have passed since the handler started and it has not finished.  An
\* armed timer runs controller.abort(): the pending fetch() rejects and the
\* catch sends SUMMARY_ERROR (cancelled); a cleared timer runs nothing.
SummaryDeadline(r) ==
  /\ wSum[r] \in {"headers", "reading"}
  /\ wSumTimer[r] \in {"armed", "cleared"}
  /\ wSumTimer' = [wSumTimer EXCEPT ![r] = "elapsed"]
  /\ IF wSumTimer[r] = "armed" /\ wSum[r] = "headers"
       THEN /\ wSum' = [wSum EXCEPT ![r] = "done"]
            /\ SendToTab(r, <<SummaryMsg("SUMMARY_ERROR", <<>>, "cancelled")>>)
       ELSE UNCHANGED <<wSum, toTab, wSent>>
  /\ UNCHANGED <<contentVars, toWorker, fetchResp, bypassResp, ruleVars,
                 wFetchVars, wBuffer, wBody, wBodyAll, wStatus, closesInRow,
                 store, unitVars, wAnswers>>

\* ------------------------------------------------------- specification
Next ==
  \/ \E url \in Urls : Trigger(url)
  \/ EscapeKey
  \/ ClosePanel
  \/ \E next \in {"notready", "ready"} : ModelConfigUpdated(next)
  \/ \E r \in Req : FetchResponse(r)
  \/ \E r \in Req : RenderContinue(r)
  \/ \E outcome \in ExtractOutcomes : FrameLoad(outcome)
  \/ \E r \in Req, hasKey \in BOOLEAN : GenerateContinue(r, hasKey)
  \/ TabReceive
  \/ \E r \in Req : SummaryTimerFire(r)
  \/ RecvAddCspBypass
  \/ RecvClearCspBypass
  \/ \E ok \in BOOLEAN : UpdateSessionRulesSettles(ok)
  \/ RecvFetchDocument
  \/ \E r \in Req, ok \in BOOLEAN : FetchHeaders(r, ok)
  \/ \E r \in Req : FetchBody(r)
  \/ \E r \in Req : FetchNetworkError(r)
  \/ \E r \in Req : FetchDeadline(r)
  \/ RecvGenerateSummary
  \/ \E r \in Req, body \in Bodies : SummaryHeadersOk(r, body)
  \/ \E r \in Req : SummaryHeadersNotOk(r, 500, "none")
  \/ \E r \in Req : SummaryRead(r)
  \/ \E r \in Req : SummaryReadEnd(r)
  \/ \E r \in Req : SummaryNetworkError(r)
  \/ \E r \in Req : SummaryDeadline(r)

Spec == Init /\ [][Next]_vars

\* The same system in two environments, each a restriction of Next.
\* Loading: the frame has not fired its load event and the model
\* configuration is not refreshed; every fetch and rule-API outcome occurs.
NextLoad ==
  \/ \E url \in Urls : Trigger(url)
  \/ EscapeKey
  \/ ClosePanel
  \/ \E r \in Req : FetchResponse(r)
  \/ \E r \in Req : RenderContinue(r)
  \/ RecvAddCspBypass
  \/ RecvClearCspBypass
  \/ \E ok \in BOOLEAN : UpdateSessionRulesSettles(ok)
  \/ RecvFetchDocument
  \/ \E r \in Req, ok \in BOOLEAN : FetchHeaders(r, ok)
  \/ \E r \in Req : FetchBody(r)
  \/ \E r \in Req : FetchNetworkError(r)
  \/ \E r \in Req : FetchDeadline(r)

SpecLoad == Init /\ [][NextLoad]_vars

\* Streaming: the model is ready, documents load and extract to text, a key
\* is stored, the panel is not closed; every outcome of the summary call
\* occurs.
NextStream ==
  \/ \E url \in Urls : Trigger(url)
  \/ \E r \in Req : FetchResponse(r)
  \/ \E r \in Req : RenderContinue(r)
  \/ FrameLoad("text")
  \/ \E r \in Req : GenerateContinue(r, TRUE)
  \/ TabReceive
  \/ \E r \in Req : SummaryTimerFire(r)
  \/ RecvAddCspBypass
  \/ UpdateSessionRulesSettles(TRUE)
  \/ RecvFetchDocument
  \/ \E r \in Req : FetchHeaders(r, TRUE)
  \/ \E r \in Req : FetchBody(r)
  \/ RecvGenerateSummary
  \/ \E r \in Req, body \in Bodies : SummaryHeadersOk(r, body)
  \/ \E r \in Req : SummaryHeadersNotOk(r, 500, "none")
  \/ \E r \in Req : SummaryRead(r)
  \/ \E r \in Req : SummaryReadEnd(r)
  \/ \E r \in Req : SummaryNetworkError(r)
  \/ \E r \in Req : SummaryDeadline(r)

InitReady == Init /\ panel.modelConfig = "ready"

SpecStream == InitReady /\ [][NextStream]_vars

\* Configuration: the model configuration changes at any moment; documents
\* load and extract to text, the key lookup answers either way, the worker
\* accepts what it is sent.
NextConfig ==
  \/ \E url \in Urls : Trigger(url)
  \/ \E next \in {"notready", "ready"} : ModelConfigUpdated(next)
  \/ \E r \in Req : FetchResponse(r)
  \/ \E r \in Req : RenderContinue(r)
  \/ \E outcome \in ExtractOutcomes : FrameLoad(outcome)
  \/ \E r \in Req, hasKey \in BOOLEAN : GenerateContinue(r, hasKey)
  \/ RecvAddCspBypass
  \/ UpdateSessionRulesSettles(TRUE)
  \/ RecvFetchDocument
  \/ \E r \in Req : FetchHeaders(r, TRUE)
  \/ \E r \in Req : FetchBody(r)
  \/ RecvGenerateSummary

SpecConfig == Init /\ [][NextConfig]_vars

\* Loading with the PreviewPanel class that index.ts imports.
NextLoadClass ==
  \/ \E url \in Urls : Trigger(url)
  \/ EscapeKey
  \/ ClosePanel
  \/ \E r \in Req : FetchResponseClass(r)
  \/ \E r \in Req : RenderContinue(r)
  \/ RecvAddCspBypass
  \/ RecvClearCspBypass
  \/ \E ok \in BOOLEAN : UpdateSessionRulesSettles(ok)
  \/ RecvFetchDocument
  \/ \E r \in Req, ok \in BOOLEAN : FetchHeaders(r, ok)
  \/ \E r \in Req : FetchBody(r)
  \/ \E r \in Req : FetchNetworkError(r)
  \/ \E r \in Req : FetchDeadline(r)

SpecLoadClass == Init /\ [][NextLoadClass]_vars

\* Happy path: one trigger with the model ready, the document loads and
\* extracts to text, a key is stored, the upstream answers 200 with the
\* records "He", "llo" cut into reads in several ways, and the stream is over
\* before the requester's 60 s have passed.  Every handler that can run
\* eventually runs.
HelloBodies ==
  { << <<D, Json(He), NL, D>>, <<Json(Llo), NL, D, DONE, NL>> >>,
    << <<D, Json(He), NL, D, Json(Llo), NL, D, DONE, NL>> >>,
    << <<D, Json(He), NL>>, <<D, Json(Llo), NL>>, <<D, DONE, NL>> >>,
    << <<D, Json(He), NL>>, <<D, Json(Llo)>> >> }

\* The only trigger of the run.
TriggerOnce(url) == panel.requestCounter = 0 /\ Trigger(url)

\* The requester's timer fires after the worker has ended the stream and the
\* tab has received every message.
SummaryTimerFireAfterStream(r) ==
  wSum[r] = "done" /\ toTab = <<>> /\ SummaryTimerFire(r)

NextHappy ==
  \/ \E url \in Urls : TriggerOnce(url)
  \/ \E r \in Req : FetchResponse(r)
  \/ \E r \in Req : RenderContinue(r)
  \/ FrameLoad("text")
  \/ \E r \in Req : GenerateContinue(r, TRUE)
  \/ TabReceive
  \/ \E r \in Req : SummaryTimerFireAfterStream(r)
  \/ RecvAddCspBypass
  \/ UpdateSessionRulesSettles(TRUE)
  \/ RecvFetchDocument
  \/ \E r \in Req : FetchHeaders(r, TRUE)
  \/ \E r \in Req : FetchBody(r)
  \/ RecvGenerateSummary
  \/ \E r \in Req, body \in HelloBodies : SummaryHeadersOk(r, body)
  \/ \E r \in Req : SummaryRead(r)
  \/ \E r \in Req : SummaryReadEnd(r)

SpecHappy == InitReady /\ [][NextHappy]_vars /\ WF_vars(NextHappy)

\* Failures: the model is ready; the fetch, the extraction, the key lookup
\* and the summary call fail or time out in every way, and the frame fires
\* its load event any number of times.  The panel is not closed.
NextFailures ==
  \/ \E url \in Urls : Trigger(url)
  \/ \E r \in Req : FetchResponse(r)
  \/ \E r \in Req : RenderContinue(r)
  \/ \E outcome \in ExtractOutcomes : FrameLoad(outcome)
  \/ FrameNavigates
  \/ \E r \in Req, hasKey \in BOOLEAN : GenerateContinue(r, hasKey)
  \/ TabReceive
  \/ \E r \in Req : SummaryTimerFire(r)
  \/ RecvAddCspBypass
  \/ \E ok \in BOOLEAN : UpdateSessionRulesSettles(ok)
  \/ RecvFetchDocument
  \/ \E r \in Req, ok \in BOOLEAN : FetchHeaders(r, ok)
  \/ \E r \in Req : FetchBody(r)
  \/ \E r \in Req : FetchNetworkError(r)
  \/ \E r \in Req : FetchDeadline(r)
  \/ RecvGenerateSummary
  \/ \E r \in Req : SummaryHeadersNotOk(r, 500, "none")
  \/ \E r \in Req : SummaryNetworkError(r)
  \/ \E r \in Req : SummaryDeadline(r)

SpecFailures == InitReady /\ [][NextFailures]_vars

\* Malformed records: the model is ready and the upstream body holds records
\* whose payload is not JSON, at the start, between valid records, cut by a
\* read boundary, repeated, and as the unterminated last record.
MalformedBodies ==
  { << <<D, BAD, NL, D, Json(He), NL>> >>,
    << <<D, Json(He), NL, D, BAD>>, <<NL, D, Json(Llo), NL>> >>,
    << <<D, Json(He), NL>>, <<D, BAD>> >>,
    << <<D, BAD, NL, D>>, <<BAD, NL, D, Json(He), NL, D, DONE, NL>> >>,
    << <<D, BAD, NL>>, <<D, Json(He), NL, D, BAD, NL>>, <<D, Json(Llo)>> >> }

NextMalformed ==
  \/ \E url \in Urls : Trigger(url)
  \/ \E r \in Req : FetchResponse(r)
  \/ \E r \in Req : RenderContinue(r)
  \/ FrameLoad("text")
  \/ \E r \in Req : GenerateContinue(r, TRUE)
  \/ TabReceive
  \/ RecvAddCspBypass
  \/ UpdateSessionRulesSettles(TRUE)
  \/ RecvFetchDocument
  \/ \E r \in Req : FetchHeaders(r, TRUE)
  \/ \E r \in Req : FetchBody(r)
  \/ RecvGenerateSummary
  \/ \E r \in Req, body \in MalformedBodies : SummaryHeadersOk(r, body)
  \/ \E r \in Req : SummaryRead(r)
  \/ \E r \in Req : SummaryReadEnd(r)
  \/ \E r \in Req : SummaryNetworkError(r)

SpecMalformed == InitReady /\ [][NextMalformed]_vars

\* Upstream answers: the model is ready and the summary endpoint answers
\* with a stream, with any non-2xx status and any kind of error body, with a
\* network failure, or not before the deadline.
NextHttp ==
  \/ \E url \in Urls : Trigger(url)
  \/ \E r \in Req : FetchResponse(r)
  \/ \E r \in Req : RenderContinue(r)
  \/ FrameLoad("text")
  \/ \E r \in Req : GenerateContinue(r, TRUE)
  \/ TabReceive
  \/ RecvAddCspBypass
  \/ UpdateSessionRulesSettles(TRUE)
  \/ RecvFetchDocument
  \/ \E r \in Req : FetchHeaders(r, TRUE)
  \/ \E r \in Req : FetchBody(r)
  \/ RecvGenerateSummary
  \/ \E r \in Req, body \in HelloBodies : SummaryHeadersOk(r, body)
  \/ \E r \in Req, status \in HttpStatuses, detail \in HttpDetails :
       SummaryHeadersNotOk(r, status, detail)
  \/ \E r \in Req : SummaryRead(r)
  \/ \E r \in Req : SummaryReadEnd(r)
  \/ \E r \in Req : SummaryNetworkError(r)
  \/ \E r \in Req : SummaryDeadline(r)

SpecHttp == InitReady /\ [][NextHttp]_vars

\* Rules over several previews: the model is ready, every call succeeds, and
\* the user closes the panel with its button only when no ADD_CSP_BYPASS or
\* CLEAR_CSP_BYPASS is under way and no renderHtml awaits its answer.
CloseAfterRender ==
  /\ apiQueue = <<>>
  /\ \A i \in 1..Len(toWorker) :
       toWorker[i].type \notin {"ADD_CSP_BYPASS", "CLEAR_CSP_BYPASS"}
  /\ \A r \in Req : render[r] # "awaitBypass"
  /\ ClosePanel

NextRules ==
  \/ \E url \in Urls : Trigger(url)
  \/ CloseAfterRender
  \/ \E r \in Req : FetchResponse(r)
  \/ \E r \in Req : RenderContinue(r)
  \/ RecvAddCspBypass
  \/ RecvClearCspBypass
  \/ UpdateSessionRulesSettles(TRUE)
  \/ RecvFetchDocument
  \/ \E r \in Req : FetchHeaders(r, TRUE)
  \/ \E r \in Req : FetchBody(r)

SpecRules == InitReady /\ [][NextRules]_vars

\* Previews one after the other: any model config, refreshed at any time;
\* every call succeeds and the summary stream is read to its end, while the
\* user may trigger the next preview at any moment.
RetriggerBodies == { << <<D, Json(He), NL>>, <<D, Json(Llo), NL, D, DONE, NL>> >> }

NextRetrigger ==
  \/ \E url \in Urls : Trigger(url)
  \/ \E next \in {"notready", "ready"} : ModelConfigUpdated(next)
  \/ \E r \in Req : FetchResponse(r)
  \/ \E r \in Req : RenderContinue(r)
  \/ FrameLoad("text")
  \/ \E r \in Req : GenerateContinue(r, TRUE)
  \/ TabReceive
  \/ RecvAddCspBypass
  \/ UpdateSessionRulesSettles(TRUE)
  \/ RecvFetchDocument
  \/ \E r \in Req : FetchHeaders(r, TRUE)
  \/ \E r \in Req : FetchBody(r)
  \/ RecvGenerateSummary
  \/ \E r \in Req, body \in RetriggerBodies : SummaryHeadersOk(r, body)
  \/ \E r \in Req : SummaryRead(r)
  \/ \E r \in Req : SummaryReadEnd(r)

SpecRetrigger == Init /\ [][NextRetrigger]_vars

\* The options page: settings are saved and the model key is saved and
\* cleared in any order, each storage write succeeding or failing, in a
\* host with or without a sync area.
InitStorage ==
  /\ InitPreview
  /\ panel.modelConfig = "ready"
  /\ \E available \in BOOLEAN : store = InitStore(available)

NextStorage ==
  \/ \E input \in SettingsInputs, syncOk \in BOOLEAN, localOk \in BOOLEAN,
        metaOk \in BOOLEAN : SaveSettingsState(input, syncOk, localOk, metaOk)
  \/ \E key \in ApiKeys, secretOk \in BOOLEAN, localOk \in BOOLEAN :
       SaveModelApiKey(key, secretOk, localOk)
  \/ \E secretOk \in BOOLEAN, localOk \in BOOLEAN :
       ClearModelApiKey(secretOk, localOk)

SpecStorage == InitStorage /\ [][NextStorage]_vars

\* Extraction: documents are fetched and shown, the frame fires its load
\* event and documents extract to text, the panel is superseded and closed
\* at any moment; the key lookup of the summary call stays unanswered.
NextExtract ==
  \/ \E url \in Urls : Trigger(url)
  \/ EscapeKey
  \/ ClosePanel
  \/ \E r \in Req : FetchResponse(r)
  \/ \E r \in Req : RenderContinue(r)
  \/ FrameLoad("text")
  \/ RecvAddCspBypass
  \/ RecvClearCspBypass
  \/ UpdateSessionRulesSettles(TRUE)
  \/ RecvFetchDocument
  \/ \E r \in Req : FetchHeaders(r, TRUE)
  \/ \E r \in Req : FetchBody(r)

SpecExtract == Init /\ [][NextExtract]_vars

\* The worker's message listener: one preview that may be closed, every
\* outcome of the document fetch and of the rule API, and messages whose url
\* is not a string.
NextAnswers ==
  \/ \E url \in Urls : TriggerOnce(url)
  \/ ClosePanel
  \/ \E r \in Req : FetchResponse(r)
  \/ \E r \in Req : RenderContinue(r)
  \/ \E type \in {"FETCH_DOCUMENT", "ADD_CSP_BYPASS"} : SendBadUrl(type)
  \/ RecvInvalidUrl
  \/ RecvAddCspBypass
  \/ RecvClearCspBypass
  \/ \E ok \in BOOLEAN : UpdateSessionRulesSettles(ok)
  \/ RecvFetchDocument
  \/ \E r \in Req, ok \in BOOLEAN : FetchHeaders(r, ok)
  \/ \E r \in Req : FetchBody(r)
  \/ \E r \in Req : FetchNetworkError(r)
  \/ \E r \in Req : FetchDeadline(r)

SpecAnswers == Init /\ [][NextAnswers]_vars

\* extractMarkdownFromHtml alone: calls with blank and non-blank documents,
\* with and without a signal; the caller aborts at any moment, the parse
\* returns or throws.
NextExtractor ==
  \/ \E c \in ExtractCalls, blank \in BOOLEAN, signal \in SignalStates :
       ExtractCall(c, blank, signal)
  \/ \E c \in ExtractCalls : ExtractAbort(c)
  \/ \E c \in ExtractCalls, throws \in BOOLEAN : ExtractMicrotask(c, throws)
  \/ \E c \in ExtractCalls : ExtractTimeout(c)

SpecExtractor == InitReady /\ [][NextExtractor]_vars

\* loadDocumentHtml alone: documents with and without a head tag, retrieved
\* through the worker or directly, with and without a redirect.
NextLoader ==
  \/ \E runtime \in BOOLEAN, url \in RequestedUrls, finalUrl \in FinalUrls,
        body \in Documents : LoadDocumentHtml(runtime, url, finalUrl, body)
  \/ LoadResolves

SpecLoader == InitReady /\ [][NextLoader]_vars

\* The summary prompt alone: saves with and without a prompt, and reloads
\* of the model state.
NextPrompt ==
  \/ \E update \in PromptInputs \cup {NoPromptGiven} : SaveSettingsPrompt(update)
  \/ LoadModelConfigPrompt

SpecPrompt == InitReady /\ [][NextPrompt]_vars

\* C39 - sanitizeSettings is idempotent on the summary prompt: sanitizing the
\* stored prompt again gives the stored prompt, the prompt reported in the
\* model state equals the stored one, and the stored prompt is the default
\* or the trimmed input cut to at most SUMMARY_PROMPT_LIMIT characters.
StoredIsDefaultOrCut ==
  /\ Len(prompt.stored) <= SummaryPromptLimit
  /\ \/ prompt.stored = DefaultSummaryPrompt
     \/ prompt.stored = SliceTo(Trim(prompt.given), SummaryPromptLimit)
ReportedIsStored == prompt.reported = prompt.stored
StoredIsFixedPoint == SanitizeSummaryPrompt(prompt.stored).value = prompt.stored
C39_SanitizeIdempotent ==
  StoredIsDefaultOrCut /\ ReportedIsStored /\ StoredIsFixedPoint

\* Empty results: the model is ready, documents extract to text or to
\* nothing, a key is stored, the upstream answers 200 within the requester's
\* 60 s, and a blank document is handed to the extractor.
NextEmpty ==
  \/ \E url \in Urls : Trigger(url)
  \/ \E r \in Req : FetchResponse(r)
  \/ \E r \in Req : RenderContinue(r)
  \/ \E outcome \in {"text", "empty"} : FrameLoad(outcome)
  \/ \E r \in Req : GenerateContinue(r, TRUE)
  \/ TabReceive
  \/ RecvAddCspBypass
  \/ UpdateSessionRulesSettles(TRUE)
  \/ RecvFetchDocument
  \/ \E r \in Req : FetchHeaders(r, TRUE)
  \/ \E r \in Req : FetchBody(r)
  \/ RecvGenerateSummary
  \/ \E r \in Req, body \in HelloBodies : SummaryHeadersOk(r, body)
  \/ \E r \in Req : SummaryRead(r)
  \/ \E r \in Req : SummaryReadEnd(r)
  \/ \E signal \in SignalStates : ExtractCall(1, TRUE, signal)

SpecEmpty == InitReady /\ [][NextEmpty]_vars

\* Deadlines: one trigger in any model state, never closed; the document is
\* fetched, every extraction outcome occurs, a key is stored and the upstream
\* answers 200.  Every handler that can run eventually runs, timers fire,
\* but nothing obliges the frame to fire its load event: the page shown in
\* it may never finish loading.
WorkOtherThanLoad ==
  \/ \E url \in Urls : TriggerOnce(url)
  \/ \E r \in Req : FetchResponse(r)
  \/ \E r \in Req : RenderContinue(r)
  \/ \E r \in Req : GenerateContinue(r, TRUE)
  \/ TabReceive
  \/ \E r \in Req : SummaryTimerFireAfterStream(r)
  \/ RecvAddCspBypass
  \/ UpdateSessionRulesSettles(TRUE)
  \/ RecvFetchDocument
  \/ \E r \in Req : FetchHeaders(r, TRUE)
  \/ \E r \in Req : FetchBody(r)
  \/ RecvGenerateSummary
  \/ \E r \in Req, body \in HelloBodies : SummaryHeadersOk(r, body)
  \/ \E r \in Req : SummaryRead(r)
  \/ \E r \in Req : SummaryReadEnd(r)

NextDeadlines ==
  \/ WorkOtherThanLoad
  \/ \E outcome \in ExtractOutcomes : FrameLoad(outcome)

SpecDeadlines == Init /\ [][NextDeadlines]_vars /\ WF_vars(WorkOtherThanLoad)

\* ------------------------------------------------------------- properties
IsTerminal(m) == m.type \in {"SUMMARY_DONE", "SUMMARY_ERROR"}

RECURSIVE Flatten(_)
Flatten(reads) == IF reads = <<>> THEN <<>> ELSE Head(reads) \o Flatten(Tail(reads))

RECURSIVE ChunksOf(_)
ChunksOf(msgs) ==
  IF msgs = <<>> THEN <<>>
  ELSE (IF Head(msgs).type = "SUMMARY_CHUNK" THEN <<Head(msgs).chunk>> ELSE <<>>)
       \o ChunksOf(Tail(msgs))

\* The non-empty delta contents of the `data: ` records of a whole body, in
\* order, whatever the reads it is cut into.
ExpectedChunks(reads) == ChunksOf(ProcessLines(SplitLines(Flatten(reads))))

\* What the panel shows: frame URL, panel state, title, summary state, content.
Presentation ==
  <<panel.frameSrc, panel.panelState, panel.currentUrl, panel.summaryState,
    panel.summaryContent>>

SummaryView == <<panel.summaryState, panel.summaryContent>>

\* An event of request r reaches the content script or the panel.
EventOf(r) ==
  \/ FetchResponse(r)
  \/ RenderContinue(r)
  \/ \E hasKey \in BOOLEAN : GenerateContinue(r, hasKey)
  \/ SummaryTimerFire(r)
  \/ (TabReceive /\ Head(toTab).from = r)
  \/ (onLoadListeners = {r} /\ \E outcome \in ExtractOutcomes : FrameLoad(outcome))

\* The worker has nothing left to do for the bypass rules.
RulesQuiescent ==
  /\ apiQueue = <<>>
  /\ \A i \in 1..Len(toWorker) :
       toWorker[i].type \notin {"ADD_CSP_BYPASS", "CLEAR_CSP_BYPASS"}

\* C1 - Staleness invariant: once show has allocated a newer id, no event of
\* an older request changes the frame URL, the panel state, the title, the
\* summary state or the summary content.
C1_StaleEventsChangeNothing ==
  [][\A r \in Req :
       (r < panel.requestCounter /\ EventOf(r)) => Presentation' = Presentation]_vars

\* C2 - Stream message attribution: a summary message that changes the
\* displayed summary was sent by the worker for the active request.
C2_AppliedMessagesAreOfActiveRequest ==
  [][(TabReceive /\ SummaryView' # SummaryView)
       => Head(toTab).from = panel.activeRequestId]_vars

\* C3 - Cleanup totality: after a close, once the worker has handled its
\* CLEAR_CSP_BYPASS and every ADD_CSP_BYPASS sent before it (no rule-API call
\* having failed), no bypass rule is installed and none is tracked.
C3_NoRuleLeftAfterClose ==
  (closesInRow > 0 /\ RulesQuiescent /\ ~apiFailed)
    => (installed = {} /\ activeRuleIds = <<>>)

\* C4 - Terminal exactly once: while the summary is ready, only a trigger, a
\* close or a model-config update changes the summary state or its content.
C4_ReadyStaysUntilNextRequest ==
  [][(/\ panel.summaryState = "ready"
      /\ ~(\E url \in Urls : Trigger(url))
      /\ ~EscapeKey
      /\ ~ClosePanel
      /\ ~(\E next \in {"notready", "ready"} : ModelConfigUpdated(next)))
       => SummaryView' = SummaryView]_vars

\* C5 - Stream protocol: per accepted GENERATE_SUMMARY the worker sends at
\* most one terminal message, nothing after it, and exactly one by the time
\* the handler has ended.
C5_OneTerminalMessageLast ==
  \A r \in Req :
    LET sent == wSent[r]
    IN  /\ \A i \in 1..Len(sent) : IsTerminal(sent[i]) => i = Len(sent)
        /\ wSum[r] = "done" => (sent # <<>> /\ IsTerminal(sent[Len(sent)]))

\* C6 - Chunk ordering: the chunks a finished stream has sent are the delta
\* contents of its body's records in order, and once every message has been
\* delivered the summary shown as ready for the active request is the
\* rendering of their concatenation.
C6_ChunksInOrderNoLoss ==
  \A r \in Req :
    /\ (wSum[r] = "done" /\ wBody[r] = <<>> /\ wBodyAll[r] # <<>>
          /\ wSent[r][Len(wSent[r])].type = "SUMMARY_DONE")
         => ChunksOf(wSent[r]) = ExpectedChunks(wBodyAll[r])
    /\ (/\ panel.activeRequestId = r
        /\ panel.summaryState = "ready"
        /\ \A q \in Req : wSum[q] \in {"none", "done"}
        /\ toTab = <<>>)
         => panel.summaryContent = Marked(Flatten(ExpectedChunks(wBodyAll[r])))

\* C7 - Idempotent close: after two closes in a row, once the worker has
\* handled the rule messages (no rule-API call having failed), the panel is
\* hidden and idle with an empty frame, no pending summary, no summary abort
\* controller and no active request, and the worker tracks no rule.
C7_TwoClosesEndState ==
  (closesInRow = 2 /\ RulesQuiescent /\ ~apiFailed)
    => /\ ~panel.visible
       /\ panel.panelState = "idle"
       /\ panel.frameSrc = ""
       /\ panel.pendingSummary = 0
       /\ panel.summaryAbortController = 0
       /\ panel.activeRequestId = 0
       /\ activeRuleIds = <<>>

\* C8 - One stream session: the worker has at most one upstream
\* /chat/completions call in progress for the tab.
C8_OneUpstreamCall ==
  Cardinality({r \in Req : wSum[r] \in {"headers", "reading"}}) <= 1

\* C9 - Stream deadline: once 60 s have passed for a summary call that had
\* not completed, the call is over and SUMMARY_ERROR has been sent.
C9_StreamDeadlineEndsCall ==
  \A r \in Req :
    wSumTimer[r] = "elapsed"
      => /\ wSum[r] = "done"
         /\ \E i \in 1..Len(wSent[r]) : wSent[r][i].type = "SUMMARY_ERROR"

\* C10 - Fetch timeout: once 10 s have passed for a proxied document fetch
\* that had not delivered the document, the worker has answered {ok: false}
\* and the load is not resolved.
C10_FetchDeadlineFails ==
  \A r \in Req :
    wFetchTimer[r] = "elapsed"
      => /\ wFetch[r] = "done"
         /\ fetchResp[r] # "ok"
         /\ load[r] # "resolved"

\* C11 - Blocked model: while a request is active whose model config has not
\* been ready since show allocated its id, generateSummaryWithAI has not been
\* entered for it, no extraction runs, and the summary area is blocked and
\* shows the configuration prompt.
C11_NotReadyStaysBlocked ==
  (panel.activeRequestId # 0 /\ ~panel.readySeen)
    => /\ gen[panel.activeRequestId] = "none"
       /\ panel.summaryAbortController = 0
       /\ panel.summaryState = "blocked"
       /\ panel.summaryContent = SetupContent

\* The successful FETCH_DOCUMENT response of request r is delivered while its
\* load is pending, not aborted, and r is the active request.
FetchSucceedsActive(r) ==
  /\ fetchResp[r] = "ok"
  /\ fetchResp'[r] = "none"
  /\ load[r] = "pending"
  /\ r \notin loadAborted
  /\ IsCurrentRequest(panel, r)

\* C12 - Fetch success leads to rendering: when the fetch of the active
\* request succeeds, ADD_CSP_BYPASS is sent for its URL and renderHtml waits
\* for the reply, whatever the model state; the reply then sets the frame URL.
C12_FetchSuccessRenders ==
  [][\A r \in Req :
       /\ FetchSucceedsActive(r)
            => /\ toWorker' = Append(toWorker, ToWorker("ADD_CSP_BYPASS", r, reqUrl[r]))
               /\ render'[r] = "awaitBypass"
       /\ (RenderContinue(r) /\ IsCurrentRequest(panel, r))
            => panel'.frameSrc = reqUrl[r]]_vars

\* C13 - Happy path: the request eventually shows the summary ready with the
\* rendering of "Hello", and stays so.
C13_HappyPathEndsReady ==
  <>[](panel.summaryState = "ready" /\ panel.summaryContent = Marked(He \o Llo))

\* C14 - Close cancels everything: a close by any route aborts the load
\* controller of a pending load and rejects that load, aborts the summary
\* controller, removes the summary listener, sends CLEAR_CSP_BYPASS and
\* leaves the panel idle.
C14_CloseCancelsAllWork ==
  [][(closesInRow' = closesInRow + 1)
       => /\ \A r \in Req :
               load[r] = "pending" => (r \in loadAborted' /\ load'[r] = "rejected")
          /\ panel.summaryAbortController # 0
               => panel.summaryAbortController \in panel'.sumAborted
          /\ panel'.summaryAbortController = 0
          /\ panel'.registered = {}
          /\ toWorker' = Append(toWorker, ToWorker("CLEAR_CSP_BYPASS", 0, NoUrl))
          /\ panel'.panelState = "idle"]_vars

\* Frame URL, panel state, summary state and summary content.
ClosedView ==
  <<panel.frameSrc, panel.panelState, panel.summaryState, panel.summaryContent>>

\* C15 - Nothing mutates a closed panel: after a close and until the next
\* trigger or close, no step changes the frame URL, the panel state, the
\* summary state or the summary content; the panel stays idle with an empty
\* frame.
C15_ClosedPanelStaysIdle ==
  [][(closesInRow > 0 /\ closesInRow' = closesInRow)
       => /\ ClosedView' = ClosedView
          /\ panel'.panelState = "idle"
          /\ panel'.frameSrc = ""]_vars

\* C16 - Rule tracking: whenever no rule handler is waiting for
\* updateSessionRules, activeRuleIds holds exactly the ids of the installed
\* bypass rules.
C16_TrackedAreInstalled ==
  apiQueue = <<>> => SeqToSet(activeRuleIds) = installed

\* C17 - isCurrentRequest: isCurrentRequest(id) is true exactly for the most
\* recently allocated id.
C17_ActiveIffLatest ==
  \A id \in Req : IsCurrentRequest(panel, id) <=> id = panel.requestCounter

\* C17 (amended) - isCurrentRequest(id) is true exactly for the most recently
\* allocated id as long as close has not run since the show that allocated it.
C17_ActiveIffLatestAndOpen ==
  \A id \in Req :
    IsCurrentRequest(panel, id) <=> (id = panel.requestCounter /\ closesInRow = 0)

\* The second show has allocated its id and the panel has been closed since.
C17_Witness == panel.requestCounter = 2 /\ closesInRow > 0

\* The failed FETCH_DOCUMENT response of request r is delivered while its
\* load is pending, not aborted, and r is the active request.
FetchFailsActive(r) ==
  /\ fetchResp[r] = "fail"
  /\ fetchResp'[r] = "none"
  /\ load[r] = "pending"
  /\ r \notin loadAborted
  /\ IsCurrentRequest(panel, r)

\* The extraction started by the frame load of active request r fails or
\* yields no text.
ExtractionFailsActive(r) ==
  /\ r \in onLoadListeners
  /\ IsCurrentRequest(panel, r)
  /\ BeginStarts(panel, r)
  /\ \E outcome \in {"empty", "failed"} : FrameLoad(outcome)

\* The tab receives the SUMMARY_ERROR of the stream of active request r.
StreamFailsActive(r) ==
  /\ TabReceive
  /\ Head(toTab).type = "SUMMARY_ERROR"
  /\ Head(toTab).from = r
  /\ IsCurrentRequest(panel, r)

\* C18 - A stage failure of the active request shows an error: a failed
\* fetch puts the panel in error with the message as title, a failed
\* extraction or stream puts the summary in error, and lastUrl is still the
\* URL of the request.
C18_FailureShowsError ==
  [][\A r \in Req :
       /\ FetchFailsActive(r)
            => /\ panel'.panelState = "error"
               /\ panel'.currentUrl = "cannotPreview"
               /\ panel'.lastUrl = reqUrl[r]
       /\ ExtractionFailsActive(r)
            => /\ panel'.summaryState = "error"
               /\ panel'.summaryStatus \in {"noText", "parseFailed"}
               /\ panel'.lastUrl = reqUrl[r]
       /\ StreamFailsActive(r)
            => /\ panel'.summaryState = "error"
               /\ panel'.summaryStatus \in {Head(toTab).error, "timeout"}
               /\ panel'.lastUrl = reqUrl[r]]_vars

\* This step sends a message of the given type for request r to the worker.
Sent(type, r) ==
  /\ Len(toWorker') = Len(toWorker) + 1
  /\ toWorker'[Len(toWorker')].type = type
  /\ toWorker'[Len(toWorker')].req = r

\* C19 - No automatic retry: FETCH_DOCUMENT is sent for a request only by the
\* step that starts its load, ADD_CSP_BYPASS only by the step that enters
\* its renderHtml, GENERATE_SUMMARY only by the step that ends its
\* generateSummaryWithAI, and none of the three is ever started again: each
\* message is sent at most once per trigger.
C19_EachMessageSentOnce ==
  [][\A r \in Req :
       /\ Sent("FETCH_DOCUMENT", r) => load[r] = "none"
       /\ load[r] # "none" => load'[r] # "none"
       /\ Sent("ADD_CSP_BYPASS", r) => render[r] = "none"
       /\ render[r] # "none" => render'[r] # "none"
       /\ Sent("GENERATE_SUMMARY", r) => (gen[r] = "awaitKey" /\ gen'[r] = "done")
       /\ gen[r] = "done" => gen'[r] = "done"]_vars

\* The fetch of request 1 has timed out in the worker and failed; request 2
\* has sent GENERATE_SUMMARY, its call has timed out and its summary shows
\* the error; the frame has navigated again since.
C19_Witness ==
  /\ wFetchTimer[1] = "elapsed"
  /\ wFetch[1] = "done"
  /\ load[1] = "rejected"
  /\ gen[2] = "done"
  /\ wSumTimer[2] = "elapsed"
  /\ wSum[2] = "done"
  /\ panel.summaryState = "error"
  /\ frameLoadPending
  /\ onLoadListeners = {}
  /\ toWorker = <<>>
  /\ toTab = <<>>

\* The contents of the valid records of a body whose every JSON payload
\* stands in a complete `data: ` record, in order.
RECURSIVE ValidContents(_)
ValidContents(tokens) ==
  IF tokens = <<>> THEN <<>>
  ELSE (IF Head(tokens).t = "json" THEN <<Head(tokens).c>> ELSE <<>>)
       \o ValidContents(Tail(tokens))

\* The body of request r holds a record that is not JSON.
HasMalformed(r) ==
  \E i \in 1..Len(Flatten(wBodyAll[r])) : Flatten(wBodyAll[r])[i] = BAD

\* The worker has read the body of request r to its end without a network
\* failure.
ReadToEnd(r) ==
  /\ wSum[r] = "done"
  /\ wBodyAll[r] # <<>>
  /\ wBody[r] = <<>>
  /\ \A i \in 1..Len(wSent[r]) : wSent[r][i].error # "network"

\* C20 - Malformed records are not fatal: when a body holding records that
\* are not JSON has been read to its end, the worker has sent no
\* SUMMARY_ERROR, the chunks it has sent are exactly the contents of the
\* valid records in order (the malformed ones gave no message, every later
\* valid one gave its SUMMARY_CHUNK), and the last message is SUMMARY_DONE.
C20_MalformedNotFatal ==
  \A r \in Req :
    (HasMalformed(r) /\ ReadToEnd(r))
      => /\ \A i \in 1..Len(wSent[r]) : wSent[r][i].type # "SUMMARY_ERROR"
         /\ ChunksOf(wSent[r]) = ValidContents(Flatten(wBodyAll[r]))
         /\ wSent[r] # <<>>
         /\ wSent[r][Len(wSent[r])].type = "SUMMARY_DONE"

\* A body that starts with two malformed records, one of them cut by a read
\* boundary, has been read to its end, and the valid record behind them has
\* given its chunk.
C20_Witness ==
  \E r \in Req :
    /\ ReadToEnd(r)
    /\ Len(wBodyAll[r]) = 2
    /\ wBodyAll[r][1] = <<D, BAD, NL, D>>
    /\ ChunksOf(wSent[r]) = <<He>>

\* This step is the worker taking a GENERATE_SUMMARY message whose model
\* config has no API base URL.
HandlesSummaryWithoutBase ==
  /\ toWorker # <<>>
  /\ Head(toWorker).type = "GENERATE_SUMMARY"
  /\ Head(toWorker).url = NoUrl
  /\ toWorker' = Tail(toWorker)

\* C21 - A summary request without an API base URL never reaches the
\* network: the step that handles such a GENERATE_SUMMARY starts no upstream
\* call and arms no timer for it (the worker's summary state is unchanged).
C21_NoFetchWithoutBaseUrl ==
  [][HandlesSummaryWithoutBase => UNCHANGED <<wSum, wSumTimer>>]_vars

\* C22 - A non-2xx answer gives exactly one SUMMARY_ERROR with the status:
\* for a session whose upstream call was answered with a non-2xx status, the
\* messages sent are exactly one SUMMARY_ERROR whose text is `HTTP <status>`
\* with or without a detail, and no SUMMARY_CHUNK or SUMMARY_DONE.
C22_Non2xxGivesOneError ==
  \A r \in Req :
    wStatus[r] \in HttpStatuses
      => \E detail \in HttpDetails :
           wSent[r] = <<SummaryMsg("SUMMARY_ERROR", <<>>,
                                   HttpErrorMessage(wStatus[r], detail))>>

\* The upstream answered 401 with a provider detail, and the requester has
\* received the one message and shows its text.
C22_Witness ==
  \E r \in Req :
    /\ wStatus[r] = 401
    /\ Len(wSent[r]) = 1
    /\ toTab = <<>>
    /\ panel.summaryState = "error"
    /\ panel.summaryStatus = "HTTP 401 - provider detail"

\* This step is the CLEAR_CSP_BYPASS handler starting with nothing tracked.
ClearsNothing ==
  /\ toWorker # <<>>
  /\ Head(toWorker).type = "CLEAR_CSP_BYPASS"
  /\ toWorker' = Tail(toWorker)
  /\ activeRuleIds = <<>>

\* This step is the CLEAR_CSP_BYPASS handler starting with tracked rules.
ClearsTracked ==
  /\ toWorker # <<>>
  /\ Head(toWorker).type = "CLEAR_CSP_BYPASS"
  /\ toWorker' = Tail(toWorker)
  /\ activeRuleIds # <<>>

\* This step is the settling of a removal call.
RemovalSettles ==
  /\ apiQueue # <<>>
  /\ Head(apiQueue).op = "remove"
  /\ apiQueue' = Tail(apiQueue)

\* This step is the failure of a removal call: a rule it names was
\* installed and the installed rules are what they were.
RemovalFails ==
  /\ RemovalSettles
  /\ SeqToSet(Head(apiQueue).ids) \cap installed # {}
  /\ installed' = installed

\* C23 - clearAll is idempotent and never throws: a CLEAR_CSP_BYPASS with
\* nothing tracked makes no rule-API call, changes no rule state and is
\* answered {ok: true}; when a removal call settles the handler answers
\* {ok: true} whether or not it succeeded; a failed removal leaves the
\* tracked ids as they were, and a later CLEAR_CSP_BYPASS asks for the
\* removal of exactly the tracked ids.
C23_ClearAllIdempotent ==
  [][/\ ClearsNothing
          => /\ UNCHANGED <<activeRuleIds, ruleIdCounter, installed, apiQueue>>
             /\ clearResp' = "ok"
     /\ RemovalSettles => clearResp' = "ok"
     /\ RemovalFails => activeRuleIds' = activeRuleIds
     /\ ClearsTracked
          => /\ apiQueue' = Append(apiQueue, ApiCall("remove", activeRuleIds, 0))
             /\ UNCHANGED <<activeRuleIds, installed>>]_vars

\* The only rule ever added is installed and tracked after a close whose
\* removal call has failed and been answered.
C23_Witness ==
  /\ apiFailed
  /\ ruleIdCounter = RuleIdStart + 1
  /\ installed = {RuleIdStart}
  /\ activeRuleIds = <<RuleIdStart>>
  /\ clearResp = "ok"
  /\ closesInRow > 0
  /\ apiQueue = <<>>
  /\ toWorker = <<>>

\* No close has happened so far: no CLEAR_CSP_BYPASS is under way or answered.
NeverClosed ==
  /\ clearResp = "none"
  /\ \A i \in 1..Len(toWorker) : toWorker[i].type # "CLEAR_CSP_BYPASS"
  /\ \A i \in 1..Len(apiQueue) : apiQueue[i].op # "remove"

\* The requests whose ADD_CSP_BYPASS has been answered.
BypassAnswered ==
  {r \in Req : render[r] = "done" \/ (render[r] = "awaitBypass" /\ bypassResp[r])}

\* This step is a trigger.
IsTrigger == panel'.requestCounter = panel.requestCounter + 1

\* A trigger sends FETCH_DOCUMENT and nothing else, and changes no rule state.
TriggerLeavesRules ==
  IsTrigger
    => /\ toWorker' = Append(toWorker,
             ToWorker("FETCH_DOCUMENT", panel'.requestCounter,
                      reqUrl'[panel'.requestCounter]))
       /\ UNCHANGED <<activeRuleIds, ruleIdCounter, installed, apiQueue>>

\* CLEAR_CSP_BYPASS is sent by a close only.
OnlyCloseSendsClear ==
  Sent("CLEAR_CSP_BYPASS", 0) => closesInRow' = closesInRow + 1

ConfigRefreshDuringRequest ==
  /\ panel.activeRequestId # 0
  /\ panel'.modelConfig # panel.modelConfig
  /\ panel'.requestCounter = panel.requestCounter

\* C25 - A config refresh does not disturb the request in progress: the
\* step that applies a new model config while a request is active changes
\* neither the panel state nor the summary state nor the summary content.
C25_RefreshKeepsRequestView ==
  [][ConfigRefreshDuringRequest
       => /\ panel'.panelState = panel.panelState
          /\ SummaryView' = SummaryView]_vars

\* C26 - A preview triggered while the model was not ready never starts the
\* parsing flow: while such a request is active no summary is pending, no
\* extraction or summary call is under way, and the summary state is not
\* loading, also after the config has become ready.
C26_BlockedPreviewNeverParses ==
  (panel.activeRequestId # 0 /\ ~panel.readyAtShow)
    => /\ panel.pendingSummary = 0
       /\ panel.summaryAbortController = 0
       /\ gen[panel.activeRequestId] = "none"
       /\ panel.summaryState # "loading"

\* C27 - A trigger cancels the previous work and clears the presentation:
\* after the step of a trigger the previous load controller (if any) is
\* aborted, the previous summary controller (if any) is aborted and none is
\* held, no summary is pending, the summary content is empty (the setup
\* prompt without a ready model), and the summary state is loading with a
\* ready model and blocked without; with nothing active nothing is aborted.
C27_TriggerCancelsAndClears ==
  [][IsTrigger
       => /\ currentController # 0 => currentController \in loadAborted'
          /\ currentController = 0 => loadAborted' = loadAborted
          /\ panel.summaryAbortController # 0
               => panel.summaryAbortController \in panel'.sumAborted
          /\ panel.summaryAbortController = 0
               => panel'.sumAborted = panel.sumAborted
          /\ panel'.summaryAbortController = 0
          /\ panel'.summaryMessageListener = 0
          /\ panel'.pendingSummary = 0
          /\ panel'.summaryContent =
               (IF CanSummarize(panel') THEN EmptyContent ELSE SetupContent)
          /\ panel'.summaryState =
               (IF CanSummarize(panel') THEN "loading" ELSE "blocked")]_vars

\* Request 2 has just been triggered while the summary of request 1 was
\* streaming with text on display: the controller of request 1 is aborted
\* and the summary is empty and loading.
C27_Witness ==
  /\ panel.activeRequestId = 2
  /\ wFetch[2] = "none"
  /\ load[2] = "pending"
  /\ panel.accumulated[1] # <<>>
  /\ 1 \in panel.sumAborted
  /\ panel.summaryContent = EmptyContent
  /\ panel.summaryState = "loading"

\* C28 - The API key is stored locally only: the sync area never holds the
\* model secret record, and the settings it holds carry no API key.
C28_KeyNeverInSync ==
  /\ store.sync.secret = NoValue
  /\ store.sync.settings # NoValue => store.sync.settings.apiKey = ""

\* A key is stored in the local area, and settings handed over with an
\* apiKey property have been written to the sync area.
C28_Witness ==
  /\ store.local.secret # NoValue
  /\ store.local.secret.apiKey = "k1"
  /\ store.sync.settings # NoValue
  /\ store.last.op = "saveSettingsState"
  /\ store.last.syncWrite = "ok"

\* The last call was a save of the settings.
LastWasSave == store.last.op = "saveSettingsState"

\* The sync area changes only in a save of settings with syncEnabled, in a
\* host that offers a sync area.
SyncChangesOnlyWhenEnabled ==
  store'.sync # store.sync
    => /\ store'.last.op = "saveSettingsState"
       /\ store'.last.syncWrite = "ok"
       /\ store'.settings.syncEnabled
       /\ store.available

\* C29 - Write targets of a save: every save writes the settings to the
\* local area; the sync area is written exactly when syncEnabled is true
\* and the host offers one, and it changes in no other step; when the sync
\* write fails and the local one succeeds the local area holds the saved
\* settings and the status reports backend local with the sync error.
C29_SaveWriteTargets ==
  /\ [](LastWasSave
          => /\ store.last.localWrite # "none"
             /\ (store.last.syncWrite # "none")
                  <=> (store.settings.syncEnabled /\ store.available)
             /\ (store.last.syncWrite = "failed" /\ store.last.localWrite = "ok")
                  => /\ store.local.settings = store.settings
                     /\ store.status.backend = "local"
                     /\ ~store.status.usingSync
                     /\ store.status.error = "syncWriteFailed")
  /\ [][SyncChangesOnlyWhenEnabled]_vars

\* A save with sync switched off after an earlier synced save: the sync
\* area still holds the earlier settings, the local area the new ones.
C29_Witness ==
  /\ LastWasSave
  /\ ~store.settings.syncEnabled
  /\ store.last.syncWrite = "none"
  /\ store.last.localWrite = "ok"
  /\ store.local.settings = store.settings
  /\ store.sync.settings # NoValue
  /\ store.sync.settings # store.settings

\* Request r is stale: it is not the active request, or its summary
\* controller is aborted.
StaleSession(r) == ~IsCurrentRequest(panel, r) \/ r \in panel.sumAborted

\* This step is generateSummaryWithAI of request r resuming after the
\* API-key lookup.
KeyLookupAnswers(r) == gen[r] = "awaitKey" /\ gen'[r] = "done"

\* C30 - GENERATE_SUMMARY is sent for the active request only: when the
\* key lookup of a request answers after that request was superseded or
\* closed, nothing is sent to the worker, no message listener is registered
\* and the summary state and content stay as they were.
C30_StaleLookupSendsNothing ==
  [][\A r \in Req :
       (KeyLookupAnswers(r) /\ StaleSession(r))
         => /\ toWorker' = toWorker
            /\ panel'.registered = panel.registered
            /\ SummaryView' = SummaryView]_vars

\* The statuses that beginSummaryParsing and the settling of its extraction
\* leave in the summary area.
ParseStatuses == {"parsing", "noText", "parseFailed"}

\* This step starts an extraction.
ExtractionStarts ==
  /\ panel'.summaryStatus \in ParseStatuses
  /\ panel.summaryStatus \notin ParseStatuses

\* This step is a load event of the frame that reaches onLoad listeners.
LoadEventObserved ==
  /\ onLoadListeners # {}
  /\ frameLoadPending
  /\ onLoadListeners' \subseteq onLoadListeners
  /\ onLoadListeners' # onLoadListeners

\* An extraction starts in a load event whose listener belongs to the request
\* that is active, whose fetch has resolved and whose HTML is pending.
ExtractionAfterLoadOfActive ==
  ExtractionStarts =>
    LET r == panel.activeRequestId
    IN  /\ LoadEventObserved
        /\ r \in onLoadListeners
        /\ load[r] = "resolved"
        /\ panel.pendingSummary = r
        /\ panel'.activeRequestId = r

\* A load event removes every listener it reaches, and changes nothing when
\* none of them belongs to the active request.
StaleLoadEventIsDropped ==
  LoadEventObserved =>
    /\ onLoadListeners' = {}
    /\ panel.activeRequestId \notin onLoadListeners =>
          /\ panel' = panel
          /\ gen' = gen

\* C31 - extraction starts only in a load event of the frame observed by the
\* listener of the request that is active at that moment, on the HTML fetched
\* for that request id; a load event observed by the listener of a superseded
\* or closed request starts no extraction, and the listener is removed.
C31_ExtractionAfterLoadOfActive ==
  [][ExtractionAfterLoadOfActive /\ StaleLoadEventIsDropped]_vars

\* Both requests went through renderHtml and registered their listener; the
\* listener of request 1 never started an extraction, so that it was reached
\* by a load event and removed after request 2 had superseded request 1; the
\* listener of request 2 has started the extraction.
C31_Witness ==
  /\ panel.modelConfig = "ready"
  /\ panel.activeRequestId = 2
  /\ panel.pendingSummary = 2
  /\ panel.summaryStatus = "parsing"
  /\ gen[1] = "none"
  /\ gen[2] = "awaitKey"
  /\ 1 \notin panel.sumAborted
  /\ \A r \in Req : render[r] = "done" /\ load[r] = "resolved"
  /\ ruleIdCounter = RuleIdStart + 2
  /\ onLoadListeners = {}

\* The summary session of r has ended: its controller is aborted (timeout,
\* supersession, close) or r is not the active request any more.  A session
\* that ends by SUMMARY_DONE or SUMMARY_ERROR removes its listener in the
\* step that applies the message.
SessionEnded(r) == r \in panel.sumAborted \/ ~IsCurrentRequest(panel, r)

\* C32 - at most one summary message listener is registered on
\* chrome.runtime.onMessage, it is the one the panel holds, and no listener
\* of a session that has ended is registered.
C32_ListenerPairing ==
  /\ Cardinality(panel.registered) <= 1
  /\ panel.registered = {panel.summaryMessageListener} \ {0}
  /\ \A r \in panel.registered : ~SessionEnded(r)

\* The panel and the summary area have left their loading states.
LeftLoading ==
  /\ panel.panelState \in {"ready", "error"}
  /\ panel.summaryState \in {"ready", "error", "blocked"}

\* C33 - a triggered request that is neither superseded nor closed eventually
\* leaves the loading states, whatever the model state and whether or not
\* the frame ever fires its load event.
C33_RequestLeavesLoading ==
  (panel.activeRequestId # 0) ~> LeftLoading

\* The promise of call c has settled.
Settled(c) == extract[c].promise \notin {"none", "pending"}

\* Nothing of a settled call is left: no abort listener, no armed timer.
SettledLeavesNothing ==
  \A c \in ExtractCalls :
    Settled(c) => ~extract[c].onAbort /\ extract[c].timeoutId # "armed"

\* While the promise is pending each of the three ways to settle is ready.
PendingCanSettle ==
  \A c \in ExtractCalls :
    extract[c].promise = "pending" =>
      /\ extract[c].stage = "queued"
      /\ extract[c].timeoutId = "armed"
      /\ extract[c].signal = "fresh" => extract[c].onAbort

\* The first settlement stays: a later abort, expiry or microtask changes
\* neither the promise nor the listener and the timer.
FirstSettlementStays ==
  \A c \in ExtractCalls :
    Settled(c) => /\ extract'[c].promise = extract[c].promise
                  /\ extract'[c].onAbort = extract[c].onAbort
                  /\ extract'[c].timeoutId = extract[c].timeoutId

\* The step that settles the promise is its first call of resolve or reject.
SettledByFirstCall ==
  \A c \in ExtractCalls :
    (extract[c].promise = "pending" /\ extract'[c].promise # "pending")
      => extract[c].settleCalls = 0 /\ extract'[c].settleCalls = 1

\* C34 - extractMarkdownFromHtml settles once, with the first of abort,
\* timer expiry and end of the parse; the step that settles detaches the
\* abort listener and clears the timer, so that nothing of the call is left
\* and later aborts and expiries have no effect.
C34_ExtractSettlesOnce ==
  /\ [](SettledLeavesNothing /\ PendingCanSettle)
  /\ [][FirstSettlementStays /\ SettledByFirstCall]_vars

\* Call 1 was settled by the caller's abort before its microtask ran, and
\* the microtask then rejected once more without effect and without
\* parsing; call 2 was settled by its parse.
C34_Witness ==
  /\ extract[1].promise = "AbortError"
  /\ extract[1].settleCalls = 2
  /\ extract[1].stage = "done"
  /\ ~extract[1].parsed
  /\ extract[1].timeoutId = "cleared"
  /\ extract[2].promise = "resolved"
  /\ extract[2].timeoutId = "cleared"
  /\ extract[2].signal = "aborted"

\* This step ends an extraction with markdown that trims to nothing.
EmptyResult ==
  /\ panel'.summaryStatus = "noText"
  /\ panel.summaryStatus # "noText"

\* No summary call exists for request r: generateSummaryWithAI was not
\* entered, no GENERATE_SUMMARY of r is under way or was handled.
NoSummaryCall(r) ==
  /\ gen[r] = "none"
  /\ wSum[r] = "none"
  /\ \A i \in 1..Len(toWorker) :
       ~(toWorker[i].type = "GENERATE_SUMMARY" /\ toWorker[i].req = r)

\* The step of an empty result shows the error with the hint and starts no
\* summary call.
EmptyResultIsFailure ==
  EmptyResult =>
    LET r == panel'.activeRequestId
    IN  /\ r # 0
        /\ panel'.summaryState = "error"
        /\ panel'.summaryContent = EmptyContent
        /\ panel'.pendingSummary = 0
        /\ gen'[r] = "none"
        /\ toWorker' = toWorker

\* A request without a summary call never shows ready, and the summary area
\* shows `parsing` only for a request whose summary call has started.
NoCallNeverReady ==
  \A r \in Req :
    /\ gen[r] = "none" => NoSummaryCall(r)
    /\ (gen[r] = "none" /\ IsCurrentRequest(panel, r)) =>
         /\ panel.summaryState # "ready"
         /\ panel.summaryStatus # "parsing"

\* A blank document is refused before the promise executor runs.
BlankFailsFast ==
  \A c \in ExtractCalls :
    extract[c].promise = "EMPTY_DOCUMENT" =>
      /\ ~extract[c].parsed
      /\ extract[c].timeoutId = "undefined"
      /\ ~extract[c].onAbort

\* C35 - an extraction result that is empty after trimming is a failure: the
\* active request shows the summary error with the open-in-new-tab hint,
\* never reaches ready and no GENERATE_SUMMARY is sent for it; a blank
\* document fails with EMPTY_DOCUMENT before any parse or timer is started.
C35_EmptyResultIsFailure ==
  /\ [](NoCallNeverReady /\ BlankFailsFast)
  /\ [][EmptyResultIsFailure]_vars

\* The summary call of request 1 has run to its end and every message of it
\* was received; request 2 extracted to nothing and shows the error, with no
\* summary call; a blank document was refused.
C35_Witness ==
  /\ panel.activeRequestId = 2
  /\ panel.summaryState = "error"
  /\ panel.summaryStatus = "noText"
  /\ NoSummaryCall(2)
  /\ onLoadListeners = {}
  /\ wSum[1] = "done"
  /\ toTab = <<>>
  /\ extract[1].promise = "EMPTY_DOCUMENT"

\* The URL the retrieval ended at, or the requested one when none is known.
FinalOrRequested ==
  IF loader.finalUrl = NoFinalUrl THEN loader.url ELSE loader.finalUrl

HasHeadTag(html) == \E i \in 1..Len(html) : html[i] = Tag("head")

\* The returned document carries the base tag of the final URL.
CarriesBaseOfFinalUrl ==
  \E i \in 1..Len(loader.result) :
    loader.result[i] = BaseTag(ComputeBaseHref(FinalOrRequested))

\* Without a head opening tag the base tag comes first and the document
\* follows unchanged.
PrependedWithoutHead ==
  ~HasHeadTag(loader.body) =>
    loader.result = <<BaseTag(ComputeBaseHref(FinalOrRequested))>> \o loader.body

\* C36 - every document returned by loadDocumentHtml carries the base tag
\* derived from the final URL of the retrieval (the requested URL when no
\* final URL is known), on both paths; a document without a head opening tag
\* gets the tag prepended and is otherwise unchanged.
C36_BaseOfFinalUrlInjected ==
  loader.stage = "resolved" => CarriesBaseOfFinalUrl /\ PrependedWithoutHead

\* The load of r was superseded or aborted: a newer trigger exists, or its
\* controller is aborted.
SupersededOrAborted(r) == r # panel.requestCounter \/ r \in loadAborted

\* This step runs the then / catch / finally handlers of the load of r.
LoadHandlersRun(r) == FetchResponse(r) \/ RenderContinue(r)

\* The handlers of a superseded or aborted load leave the controller and
\* the set of aborted controllers alone, and those of an aborted load leave
\* the panel as it is.
StaleHandlersKeepController ==
  \A r \in Req :
    /\ (LoadHandlersRun(r) /\ SupersededOrAborted(r))
         => /\ currentController' = currentController
            /\ loadAborted' = loadAborted
    /\ (FetchResponse(r) /\ r \in loadAborted) => panel' = panel

\* A load is not the active request when its controller is aborted, so the
\* showError of its catch is not one for the active request.
AbortedIsNotActive ==
  \A r \in loadAborted' \ loadAborted :
    /\ ~IsCurrentRequest(panel', r)
    /\ ShowError(panel', r, "cannotPreview") = panel'

\* C37 - currentController is null or the controller of the most recent
\* trigger, never an aborted one; the handlers of a superseded or aborted
\* load neither abort, replace nor null the controller of a newer request,
\* and an aborted load calls no showError for the active request.
C37_ControllerIsOfLatestTrigger ==
  /\ [](/\ currentController \in {0, panel.requestCounter}
        /\ currentController \notin loadAborted)
  /\ [][StaleHandlersKeepController /\ AbortedIsNotActive]_vars

\* renderHtml of request 1 was waiting for its reply when trigger 2 aborted
\* controller 1; the handlers of request 1 have since run to their end and
\* the controller of request 2 is still in place.
C37_Witness ==
  /\ 1 \in loadAborted
  /\ load[1] = "resolved"
  /\ render[1] = "done"
  /\ panel.requestCounter = 2
  /\ currentController = 2
  /\ load[2] = "pending"

\* The ADD_CSP_BYPASS of request r is in the worker's inbox or its
\* updateSessionRules call is pending.
AddUnderWay(r) ==
  \/ \E i \in 1..Len(toWorker) :
       toWorker[i].type = "ADD_CSP_BYPASS" /\ toWorker[i].req = r
  \/ \E i \in 1..Len(apiQueue) : apiQueue[i].op = "add" /\ apiQueue[i].req = r

PendingRemovals ==
  Cardinality({i \in 1..Len(apiQueue) : apiQueue[i].op = "remove"})

\* Each handler has answered once when it has ended and not before.
AnsweredOncePerMessage ==
  /\ \A r \in Req :
       /\ wAnswers.fetch[r] = IF wFetch[r] = "done" THEN 1 ELSE 0
       /\ wAnswers.bypass[r] <= 1
       /\ AddUnderWay(r) => wAnswers.bypass[r] = 0
       /\ bypassResp[r] => wAnswers.bypass[r] = 1
  /\ wAnswers.clearOwed = PendingRemovals
  /\ BadMessagesSent <= MaxBadMessages

\* The ADD_CSP_BYPASS handler answers in the step that ends it, whether the
\* rule call succeeded or failed, and in no other step.
BypassAnsweredAtEnd ==
  \A r \in Req :
    (wAnswers'.bypass[r] # wAnswers.bypass[r] \/ (AddUnderWay(r) /\ ~AddUnderWay(r)'))
      => /\ AddUnderWay(r) /\ ~AddUnderWay(r)'
         /\ wAnswers.bypass[r] = 0 /\ wAnswers'.bypass[r] = 1

\* The CLEAR_CSP_BYPASS handler answers at once when nothing is tracked,
\* and otherwise in the step that settles its removal.
ClearAnsweredAtEnd ==
  /\ (toWorker # <<>> /\ Head(toWorker).type = "CLEAR_CSP_BYPASS"
        /\ toWorker' = Tail(toWorker))
       => IF Len(activeRuleIds) = 0
            THEN clearResp' = "ok" /\ apiQueue' = apiQueue
            ELSE apiQueue' = Append(apiQueue, ApiCall("remove", activeRuleIds, 0))
  /\ (apiQueue # <<>> /\ Head(apiQueue).op = "remove" /\ apiQueue' = Tail(apiQueue))
       => clearResp' = "ok"

\* A message whose url is not a string is answered INVALID_URL in the step
\* that receives it; no fetch is started and the rule state stays as it is.
BadUrlRefused ==
  (toWorker # <<>> /\ Head(toWorker).url = NotAString /\ toWorker' = Tail(toWorker))
    => /\ wAnswers'.invalid = wAnswers.invalid + 1
       /\ UNCHANGED <<ruleVars, wFetchVars, fetchResp, bypassResp>>
       /\ wAnswers'.fetch = wAnswers.fetch
       /\ wAnswers'.bypass = wAnswers.bypass

\* C38 - the worker calls sendResponse exactly once for every FETCH_DOCUMENT,
\* ADD_CSP_BYPASS and CLEAR_CSP_BYPASS, on success, on upstream and rule-API
\* failure and on timeout; a message with a non-string url is answered
\* INVALID_URL with no network call and no change to the rules.
C38_OneAnswerPerMessage ==
  /\ []AnsweredOncePerMessage
  /\ [][BypassAnsweredAtEnd /\ ClearAnsweredAtEnd /\ BadUrlRefused]_vars

\* The document fetch of request 1 was answered, its ADD_CSP_BYPASS was
\* answered after the rule call failed, the panel was closed and its
\* CLEAR_CSP_BYPASS answered, and two messages with a bad url were refused.
C38_Witness ==
  /\ wAnswers.fetch[1] = 1
  /\ wAnswers.bypass[1] = 1
  /\ wAnswers.invalid = 2
  /\ wAnswers.clearOwed = 0
  /\ apiFailed
  /\ activeRuleIds = <<>>
  /\ closesInRow = 1
  /\ clearResp = "ok"
  /\ toWorker = <<>>
  /\ apiQueue = <<>>

====
